---- MODULE Spec2Model ----
(***************************************************************************)
(* Model of the seasonal forecasting pipeline of RetailSense               *)
(* (src/forecasting_engine): the model registry (save_model, load_model,   *)
(* load_model_metrics), the training workflow, the temporal splitter, the  *)
(* model selection, the forecast generator and the purchase plan builder.  *)
(***************************************************************************)
EXTENDS Integers, Sequences, FiniteSets, TLC

VARIABLES
    modelFiles,     \* model_<season>_<name>.pkl files: path -> pickled model
    metricsFiles,   \* metrics_<season>.json files: path -> metrics record
    inflight,       \* caller -> the save_model call that has written its model, not yet its metrics
    saveLog,        \* season -> arguments of the last completed save_model call (history)
    allMetrics,     \* season -> every completed save_model call so far supplied metrics (history)
    nSaves,         \* number of save_model calls started
    regResult,      \* outcome of the last load_model / load_model_metrics call
    splitIn,        \* create_temporal_split: the arguments X (rows in input order) and y
    splitOut,       \* create_temporal_split: the returned X_train, X_test, y_train, y_test
    selIn,          \* train_models_by_season: season_type and what each family's training did
    selOut,         \* train_models_by_season: the returned dict, or the exception raised
    pc,             \* train_workflow: the statement it is at
    unit,           \* train_workflow: the season whose try block it is in
    trX,            \* train_workflow: X_pv / X_oi and y_pv / y_oi as prepared
    trained,        \* train_workflow: pv_result / oi_result
    results,        \* train_workflow: the results dict
    attempted,      \* seasons whose try block was entered in this run (history)
    trainCall,      \* the last train_models_by_season call of this run (history)
    runs,           \* number of train_workflow calls started
    planArg,        \* build_plan_compras: the predictions table as passed (history)
    dfPred,         \* build_plan_compras: the caller's predictions table, which the call may modify
    planOut,        \* build_plan_compras: the returned plan, or the exception raised
    numTiendas,     \* build_plan_compras: the num_tiendas argument
    predIn,         \* predict_workflow: the cleaned data and the arguments of the call
    predOut,        \* predict_workflow: what the call returned or raised
    callIn,         \* a call of a function that keeps no state: its arguments
    callOut,        \* that call's result, or the exception raised
    overlapped      \* seasons for which a save_model call began during another one (history)

regVars == <<modelFiles, metricsFiles, inflight, saveLog, allMetrics, nSaves, regResult>>
splitVars == <<splitIn, splitOut>>
selVars == <<selIn, selOut>>

trainVars == <<pc, unit, trX, trained, results, attempted, trainCall, runs>>

planVars == <<planArg, dfPred, planOut, numTiendas>>

predVars == <<predIn, predOut>>

callVars == <<callIn, callOut>>

raceVars == <<overlapped>>

vars == <<regVars, splitVars, selVars, trainVars, planVars, predVars, callVars, raceVars>>

\* the variables a component leaves alone
notReg == <<splitVars, selVars, trainVars, planVars, predVars, callVars, raceVars>>
notSplit == <<regVars, selVars, trainVars, planVars, predVars, callVars, raceVars>>
notSel == <<regVars, splitVars, trainVars, planVars, predVars, callVars, raceVars>>
notTrain == <<splitVars, selVars, planVars, predVars, callVars, raceVars>>
notPlan == <<regVars, splitVars, selVars, trainVars, predVars, callVars, raceVars>>
notPred == <<regVars, splitVars, selVars, trainVars, planVars, callVars, raceVars>>
notCall == <<regVars, splitVars, selVars, trainVars, planVars, predVars, raceVars>>

-----------------------------------------------------------------------------
(* Bounds *)

MaxSaves == 3       \* save_model calls per behaviour
MaxMetric == 1      \* metric values are 0..MaxMetric
MaxRows == 4        \* rows of a feature matrix
MaxRuns == 2        \* train_workflow calls per behaviour
MaxPlanRows == 3    \* rows of a predictions table given to build_plan_compras
MaxPredRows == 2    \* rows of the cleaned table predict_workflow forecasts from
MaxThemeTokens == 4 \* pieces a theme string is put together from
MaxVec == 3         \* length of the vectors given to mean_absolute_percentage_error
MaxQty == 2         \* largest quantity in those vectors
MaxCleanRows == 2   \* rows of a table given to clean_data

-----------------------------------------------------------------------------
(* Basic sets *)

Seasons == {"PV", "OI"}
Families == {"CatBoost", "XGBoost"}
Callers == {"A", "B"}

SeasonChars(s) ==
    IF s = "PV" THEN <<"P", "V">> ELSE <<"O", "I">>

NameChars(n) ==
    IF n = "CatBoost" THEN <<"C", "a", "t", "B", "o", "o", "s", "t">>
    ELSE <<"X", "G", "B", "o", "o", "s", "t">>

\* ASCII code of the characters that occur in artifact file names
Ord(c) ==
    CASE c = "." -> 46
      [] c = "B" -> 66 [] c = "C" -> 67 [] c = "G" -> 71 [] c = "I" -> 73
      [] c = "O" -> 79 [] c = "P" -> 80 [] c = "V" -> 86 [] c = "X" -> 88
      [] c = "_" -> 95
      [] c = "a" -> 97 [] c = "c" -> 99 [] c = "d" -> 100 [] c = "e" -> 101
      [] c = "i" -> 105 [] c = "j" -> 106 [] c = "k" -> 107 [] c = "l" -> 108
      [] c = "m" -> 109 [] c = "n" -> 110 [] c = "o" -> 111 [] c = "p" -> 112
      [] c = "r" -> 114 [] c = "s" -> 115 [] c = "t" -> 116

\* Python's str comparison: code point by code point, a proper prefix is smaller
RECURSIVE StrLess(_, _)
StrLess(a, b) ==
    IF b = <<>> THEN FALSE
    ELSE IF a = <<>> THEN TRUE
    ELSE IF Ord(Head(a)) # Ord(Head(b)) THEN Ord(Head(a)) < Ord(Head(b))
    ELSE StrLess(Tail(a), Tail(b))

IsPrefix(p, s) == Len(p) <= Len(s) /\ SubSeq(s, 1, Len(p)) = p
IsSuffix(p, s) == Len(p) <= Len(s) /\ SubSeq(s, Len(s) - Len(p) + 1, Len(s)) = p

\* sorted(files)[0]
SortedFirst(files) ==
    CHOOSE f \in files : \A g \in files : g = f \/ StrLess(f, g)

\* sorted(files)[-1]
SortedLast(files) ==
    CHOOSE f \in files : \A g \in files : g = f \/ StrLess(g, f)

-----------------------------------------------------------------------------
(* Model registry: training.py *)

PklSuffix == <<".", "p", "k", "l">>

\* model_path = f"{output_dir}/model_{season_type}_{model_name}.pkl" (basename)
ModelPath(s, n) ==
    <<"m", "o", "d", "e", "l", "_">> \o SeasonChars(s) \o <<"_">> \o NameChars(n) \o PklSuffix

\* a pattern that leaves the season type out: every model file matches
GlobAnySeason(files, s) == {p \in DOMAIN files : IsSuffix(PklSuffix, p)}

\* pattern = f"{input_dir}/model_{season_type}_*.pkl"; glob.glob(pattern)
GlobModels(files, s) ==
    LET prefix == <<"m", "o", "d", "e", "l", "_">> \o SeasonChars(s) \o <<"_">>
    IN {p \in DOMAIN files :
            /\ IsPrefix(prefix, p)
            /\ IsSuffix(PklSuffix, p)
            /\ Len(p) >= Len(prefix) + Len(PklSuffix)}

\* the metrics argument of save_model: None (the default), or a dict of the three metrics
NoMetrics == [given |-> FALSE]
MetricsTriple(a, b, c) == [given |-> TRUE, mape |-> a, mae |-> b, rmse |-> c]

\* JSON values of the metrics record: a number, or null (Python's None)
Null == [null |-> TRUE]
Num(v) == [null |-> FALSE, num |-> v]

\* `if metrics:` in save_model
Truthy(metrics) == metrics.given

\* a dump that clears the season's artifacts of other families first
WriteModelFileOnly(files, s, n, model) ==
    LET kept == {p \in DOMAIN files : \A k \in Families : p # ModelPath(s, k)}
    IN [p \in kept \cup {ModelPath(s, n)} |->
            IF p = ModelPath(s, n) THEN model ELSE files[p]]

\* joblib.dump(model, model_path)
WriteModelFile(files, s, n, model) ==
    [p \in DOMAIN files \cup {ModelPath(s, n)} |->
        IF p = ModelPath(s, n) THEN model ELSE files[p]]

\* metrics_path = f"{output_dir}/metrics_{season_type}.json" (basename)
MetricsPath(s) ==
    <<"m", "e", "t", "r", "i", "c", "s", "_">> \o SeasonChars(s) \o <<".", "j", "s", "o", "n">>

\* a metrics file per (season_type, model family) instead of one per season_type
WriteMetricsFilePerFamily(mfiles, s, n, metrics) ==
    LET path == <<"m", "e", "t", "r", "i", "c", "s", "_">> \o SeasonChars(s) \o <<"_">>
                    \o NameChars(n) \o <<".", "j", "s", "o", "n">>
    IN [k \in DOMAIN mfiles \cup {path} |->
        IF k = path
        THEN [season_type |-> s, model_name |-> n,
              metrics |-> [mape |-> Num(metrics.mape), mae |-> Num(metrics.mae),
                           rmse |-> Num(metrics.rmse)]]
        ELSE mfiles[k]]

\* a write that leaves a metrics record that already exists as it is
WriteMetricsFileKeep(mfiles, s, n, metrics) ==
    [k \in DOMAIN mfiles \cup {MetricsPath(s)} |->
        IF k \in DOMAIN mfiles THEN mfiles[k]
        ELSE [season_type |-> s, model_name |-> n,
              metrics |-> [mape |-> Num(metrics.mape), mae |-> Num(metrics.mae),
                           rmse |-> Num(metrics.rmse)]]]

\* json.dump(metrics_data, f) to metrics_<season_type>.json
WriteMetricsFile(mfiles, s, n, metrics) ==
    [k \in DOMAIN mfiles \cup {MetricsPath(s)} |->
        IF k = MetricsPath(s)
        THEN [season_type |-> s, model_name |-> n,
              metrics |-> [mape |-> Num(metrics.mape), mae |-> Num(metrics.mae),
                           rmse |-> Num(metrics.rmse)]]
        ELSE mfiles[k]]

\* load_model(season_type)
load_model(files, s) ==
    LET found == GlobModels(files, s)
    IN IF found = {}
       THEN [raised |-> TRUE, error |-> "FileNotFoundError"]
       ELSE [raised |-> FALSE, model |-> files[SortedLast(found)]]

\* load_model_metrics(season_type)
load_model_metrics(mfiles, s) ==
    IF MetricsPath(s) \notin DOMAIN mfiles
    THEN [season_type |-> s, model_name |-> "Unknown",
          metrics |-> [mape |-> Null, mae |-> Null, rmse |-> Null]]
    ELSE mfiles[MetricsPath(s)]

Idle == \A c \in Callers : c \notin DOMAIN inflight

\* the metrics dicts the callers of save_model pass
MetricsInputs == {MetricsTriple(m, m, m) : m \in 0..MaxMetric}

Put(f, k, v) == [x \in DOMAIN f \cup {k} |-> IF x = k THEN v ELSE f[x]]
Drop(f, k) == [x \in DOMAIN f \ {k} |-> f[x]]

\* the bookkeeping of a save_model call that has returned
LogSave(call) ==
    /\ saveLog' = Put(saveLog, call.season_type, call)
    /\ allMetrics' = [allMetrics EXCEPT ![call.season_type] = @ /\ Truthy(call.metrics)]

\* save_model, first write: the model artifact (lines 325-330); the call returns
\* here when no metrics were passed
SaveWriteModel(c, model, s, n, metrics) ==
    /\ c \notin DOMAIN inflight
    /\ modelFiles' = WriteModelFile(modelFiles, s, n, model)
    /\ inflight' = IF Truthy(metrics)
                   THEN Put(inflight, c, [model |-> model, season_type |-> s,
                                          model_name |-> n, metrics |-> metrics])
                   ELSE inflight
    /\ regResult' = [op |-> "none"]
    /\ UNCHANGED metricsFiles

\* save_model, second write: the metrics record (lines 333-342)
SaveWriteMetrics(c) ==
    /\ c \in DOMAIN inflight
    /\ metricsFiles' = WriteMetricsFile(metricsFiles, inflight[c].season_type,
                                        inflight[c].model_name, inflight[c].metrics)
    /\ inflight' = Drop(inflight, c)
    /\ UNCHANGED <<modelFiles, regResult>>

LoadModel(s) ==
    /\ regResult' = [op |-> "load_model", season_type |-> s, result |-> load_model(modelFiles, s)]
    /\ UNCHANGED <<modelFiles, metricsFiles, inflight>>

LoadModelMetrics(s) ==
    /\ regResult' = [op |-> "load_model_metrics", season_type |-> s,
                     result |-> load_model_metrics(metricsFiles, s)]
    /\ UNCHANGED <<modelFiles, metricsFiles, inflight>>

\* the registry before any call
RegEmpty ==
    /\ modelFiles = <<>>
    /\ metricsFiles = <<>>
    /\ inflight = <<>>
    /\ saveLog = <<>>
    /\ allMetrics = [s \in Seasons |-> TRUE]
    /\ nSaves = 0
    /\ regResult = [op |-> "none"]

\* the variables of the other components, where a specification does not use them
SplitUnused == splitIn = [X |-> <<>>, y |-> <<>>] /\ splitOut = [done |-> FALSE]
SelUnused == selIn = [season_type |-> "PV"] /\ selOut = [done |-> FALSE]
TrainUnused ==
    /\ pc = "idle" /\ unit = "PV" /\ trX = [X |-> <<>>, y |-> <<>>]
    /\ trained = [done |-> FALSE] /\ results = <<>> /\ attempted = {}
    /\ trainCall = [done |-> FALSE] /\ runs = 0

PlanUnused ==
    /\ planArg = [cols |-> {}, rows |-> <<>>] /\ dfPred = [cols |-> {}, rows |-> <<>>]
    /\ numTiendas = 0
    /\ planOut = [done |-> FALSE]

PredUnused ==
    /\ predIn = [df |-> [cols |-> {}, rows |-> <<>>]]
    /\ predOut = [done |-> FALSE]

CallUnused ==
    /\ callIn = [fn |-> "none"]
    /\ callOut = [done |-> FALSE]

RaceUnused == overlapped = {}

RegInit == RegEmpty /\ SplitUnused /\ SelUnused /\ TrainUnused /\ PlanUnused /\ PredUnused /\ CallUnused /\ RaceUnused

\* The registry used as the pipeline uses it: one call at a time (spec section 5);
\* the model passed to the k-th save_model call is the object k
RegSave ==
    /\ \E c \in Callers, s \in Seasons, n \in Families, m \in MetricsInputs \cup {NoMetrics} :
            /\ Idle /\ nSaves < MaxSaves
            /\ SaveWriteModel(c, nSaves + 1, s, n, m)
            /\ IF Truthy(m)
               THEN UNCHANGED <<saveLog, allMetrics>>
               ELSE LogSave([model |-> nSaves + 1, season_type |-> s,
                             model_name |-> n, metrics |-> m])
    /\ nSaves' = nSaves + 1
    /\ UNCHANGED notReg

RegSaveMetrics ==
    /\ \E c \in Callers : SaveWriteMetrics(c) /\ LogSave(inflight[c])
    /\ UNCHANGED <<nSaves, notReg>>

RegLoad ==
    /\ \E s \in Seasons : Idle /\ LoadModel(s)
    /\ UNCHANGED <<saveLog, allMetrics, nSaves, notReg>>

RegLoadMetrics ==
    /\ \E s \in Seasons : Idle /\ LoadModelMetrics(s)
    /\ UNCHANGED <<saveLog, allMetrics, nSaves, notReg>>

RegNext == RegSave \/ RegSaveMetrics \/ RegLoad \/ RegLoadMetrics

SpecRegistry == RegInit /\ [][RegNext]_vars

\* the metrics record a completed save_model call leaves in the metrics file
SavedMetrics(call) ==
    [mape |-> Num(call.metrics.mape), mae |-> Num(call.metrics.mae),
     rmse |-> Num(call.metrics.rmse)]

\* C1: after any sequence of save_model calls, load_model(season_type) returns the
\* model passed to the most recent save_model call for that season_type, also when
\* an earlier call for the season used another model family name.
C1_LoadReturnsLastSaved ==
    (/\ regResult.op = "load_model"
     /\ regResult.season_type \in DOMAIN saveLog)
    => regResult.result = [raised |-> FALSE, model |-> saveLog[regResult.season_type].model]

\* C2: after save_model calls that each supply metrics, load_model_metrics(season_type)
\* returns the model_name and the metrics of the last call for that season_type,
\* whatever families were saved, and there is exactly one metrics record per season_type.
C2_MetricsOfLastSave ==
    /\ (/\ regResult.op = "load_model_metrics"
        /\ regResult.season_type \in DOMAIN saveLog
        /\ allMetrics[regResult.season_type])
       => LET last == saveLog[regResult.season_type]
          IN /\ regResult.result.model_name = last.model_name
             /\ regResult.result.metrics = SavedMetrics(last)
             /\ regResult.result.season_type = regResult.season_type
    /\ \A s \in DOMAIN saveLog :
            (Idle /\ allMetrics[s]) =>
                Cardinality({p \in DOMAIN metricsFiles : metricsFiles[p].season_type = s}) = 1

\* load_model_metrics after a CatBoost save that followed an XGBoost save of the season
C2_Witness ==
    /\ regResult.op = "load_model_metrics"
    /\ regResult.season_type \in DOMAIN saveLog
    /\ allMetrics[regResult.season_type]
    /\ saveLog[regResult.season_type].model_name = "CatBoost"
    /\ ModelPath(regResult.season_type, "XGBoost") \in DOMAIN modelFiles
    /\ regResult.result.model_name = "CatBoost"

\* C13: load_model(season_type) raises its not-found error exactly when no model has
\* been saved for that season_type, whatever was saved for the other one; then
\* load_model_metrics(season_type) does not raise and returns the placeholder:
\* model name 'Unknown', mape, mae and rmse null.
C13_NotFoundExactlyWhenUnsaved ==
    /\ regResult.op = "load_model" =>
            /\ regResult.result.raised <=> regResult.season_type \notin DOMAIN saveLog
            /\ regResult.result.raised => regResult.result.error = "FileNotFoundError"
    /\ (regResult.op = "load_model_metrics" /\ regResult.season_type \notin DOMAIN saveLog) =>
            regResult.result = [season_type |-> regResult.season_type,
                                model_name |-> "Unknown",
                                metrics |-> [mape |-> Null, mae |-> Null, rmse |-> Null]]

\* load_model('OI') raising while models of both families are saved for PV
C13_Witness ==
    /\ regResult.op = "load_model"
    /\ regResult.season_type = "OI"
    /\ regResult.result.raised
    /\ DOMAIN saveLog = {"PV"}
    /\ Cardinality(DOMAIN modelFiles) = 2
    /\ DOMAIN metricsFiles # {}

-----------------------------------------------------------------------------
(* Model registry under concurrent callers: training.py, save_model *)

\* the variables the registry leaves alone when callers overlap
notRace == <<splitVars, selVars, trainVars, planVars, predVars, callVars>>

\* the family of the model artifact of season s that was written last
LastWrittenFamily(s) ==
    CHOOSE n \in Families :
        /\ ModelPath(s, n) \in DOMAIN modelFiles
        /\ \A k \in Families :
                ModelPath(s, k) \in DOMAIN modelFiles =>
                    modelFiles[ModelPath(s, k)] <= modelFiles[ModelPath(s, n)]

\* a caller enters save_model and writes the model artifact (lines 325-330),
\* whatever the other caller is doing
RaceSave ==
    /\ \E c \in Callers, s \in Seasons, n \in Families, m \in MetricsInputs \cup {NoMetrics} :
            /\ nSaves < MaxSaves
            /\ SaveWriteModel(c, nSaves + 1, s, n, m)
            /\ overlapped' = IF \E d \in DOMAIN inflight : inflight[d].season_type = s
                              THEN overlapped \cup {s} ELSE overlapped
            /\ IF Truthy(m)
               THEN UNCHANGED <<saveLog, allMetrics>>
               ELSE LogSave([model |-> nSaves + 1, season_type |-> s,
                             model_name |-> n, metrics |-> m])
    /\ nSaves' = nSaves + 1
    /\ UNCHANGED notRace

\* a caller writes its metrics record and returns (lines 333-342)
RaceSaveMetrics ==
    /\ \E c \in Callers : SaveWriteMetrics(c) /\ LogSave(inflight[c])
    /\ UNCHANGED <<nSaves, overlapped, notRace>>

RaceInit == RegInit

RaceNext == RaceSave \/ RaceSaveMetrics

SpecRace == RaceInit /\ [][RaceNext]_vars

\* C26: saves of one season_type are not guarded against each other. When none of a
\* season's saves began during another one, the metrics record left once all have
\* returned names the family of the model artifact written last; when two saves
\* interleave, a final state in which it names another family is reachable.
C26_SequentialSavesAgree ==
    \A s \in Seasons :
        (Idle /\ s \in DOMAIN saveLog /\ allMetrics[s] /\ s \notin overlapped) =>
            /\ MetricsPath(s) \in DOMAIN metricsFiles
            /\ metricsFiles[MetricsPath(s)].model_name = LastWrittenFamily(s)

\* two interleaved saves of PV have returned: the metrics record names the family
\* of the first model written, the artifact written last is of the other family
C26_Witness ==
    /\ Idle /\ nSaves = 2
    /\ overlapped = {"PV"}
    /\ allMetrics["PV"]
    /\ DOMAIN saveLog = {"PV"}
    /\ DOMAIN modelFiles = {ModelPath("PV", "CatBoost"), ModelPath("PV", "XGBoost")}
    /\ MetricsPath("PV") \in DOMAIN metricsFiles
    /\ modelFiles[ModelPath("PV", "CatBoost")] = 1
    /\ modelFiles[ModelPath("PV", "XGBoost")] = 2
    /\ LastWrittenFamily("PV") = "XGBoost"
    /\ metricsFiles[MetricsPath("PV")].model_name = "CatBoost"

\* C29: save_model writes the model artifact before the metrics record and nothing
\* deletes artifacts, so in every reachable state, between the two writes of a
\* save too, a metrics record names a family that has a model artifact of the
\* record's season_type.
C29_MetricsNameAnArtifact ==
    \A p \in DOMAIN metricsFiles :
        /\ p = MetricsPath(metricsFiles[p].season_type)
        /\ metricsFiles[p].model_name \in Families
        /\ ModelPath(metricsFiles[p].season_type, metricsFiles[p].model_name)
                \in GlobModels(modelFiles, metricsFiles[p].season_type)

\* between the two writes of a CatBoost save of PV, the record left by an earlier
\* XGBoost save of PV still there
C29_Witness ==
    /\ \E c \in DOMAIN inflight :
            inflight[c].season_type = "PV" /\ inflight[c].model_name = "CatBoost"
    /\ MetricsPath("PV") \in DOMAIN metricsFiles
    /\ metricsFiles[MetricsPath("PV")].model_name = "XGBoost"
    /\ ModelPath("PV", "CatBoost") \in DOMAIN modelFiles
    /\ ModelPath("PV", "XGBoost") \in DOMAIN modelFiles

-----------------------------------------------------------------------------
(* Temporal splitter: training.py, create_temporal_split *)

TestSizePct == 20       \* test_size = 0.2
YearBase == 2000        \* season_year = 2000 + year_short

SplitYears == {YearBase + 24, YearBase + 25, YearBase + 26}
SplitTargets == {1, 2}

\* df = X.copy(); df['target'] = y.values: row i of X joined with y[i]
WithTarget(X, y) ==
    {[idx |-> i, season_year |-> X[i].season_year, target |-> y[i]] : i \in DOMAIN X}

\* df.sort_values(season_year_col): pandas' default kind is quicksort, which is not
\* stable, so rows of equal season_year may come out in any order
RECURSIVE SortValues(_)
SortValues(rows) ==
    IF rows = {} THEN {<<>>}
    ELSE LET least == {r \in rows : \A q \in rows : r.season_year <= q.season_year}
         IN UNION {{<<r>> \o rest : rest \in SortValues(rows \ {r})} : r \in least}

\* a split index that rounds up instead of truncating
SplitIdxCeil(n) == (n * (100 - TestSizePct) + 99) \div 100

\* split_idx = int(len(df) * (1 - test_size))
SplitIdx(n) == (n * (100 - TestSizePct)) \div 100

DropTarget(rows) == [i \in DOMAIN rows |-> [idx |-> rows[i].idx, season_year |-> rows[i].season_year]]
TargetOf(rows) == [i \in DOMAIN rows |-> [idx |-> rows[i].idx, target |-> rows[i].target]]

\* train_df = df.iloc[:split_idx]
TrainPart(df) == SubSeq(df, 1, SplitIdx(Len(df)))

\* a test part that starts one row late
TestPartLate(df) == SubSeq(df, SplitIdx(Len(df)) + 2, Len(df))

\* test_df = df.iloc[split_idx:]
TestPart(df) == SubSeq(df, SplitIdx(Len(df)) + 1, Len(df))

\* the four values returned for one outcome `df` of the sort
SplitResult(df) ==
    [done |-> TRUE,
     X_train |-> DropTarget(TrainPart(df)), y_train |-> TargetOf(TrainPart(df)),
     X_test |-> DropTarget(TestPart(df)), y_test |-> TargetOf(TestPart(df))]

\* create_temporal_split(X, y): the set of results the sort allows
create_temporal_split(X, y) == {SplitResult(df) : df \in SortValues(WithTarget(X, y))}

\* feature matrices of n rows (row i of X is at index i) with their targets
SplitInputs(n) ==
    {[X |-> [i \in 1..n |-> [idx |-> i, season_year |-> yrs[i]]], y |-> tg] :
        yrs \in [1..n -> SplitYears], tg \in [1..n -> SplitTargets]}

SplitInit ==
    /\ RegEmpty /\ SelUnused /\ TrainUnused /\ PlanUnused /\ PredUnused /\ CallUnused /\ RaceUnused
    /\ \E n \in 1..MaxRows : splitIn \in SplitInputs(n)
    /\ splitOut = [done |-> FALSE]

CreateTemporalSplit ==
    /\ ~splitOut.done
    /\ splitOut' \in create_temporal_split(splitIn.X, splitIn.y)
    /\ UNCHANGED <<splitIn, notSplit>>

SplitNext == CreateTemporalSplit

SpecSplit == SplitInit /\ [][SplitNext]_vars

Concat(a, b) == a \o b

IsSortedByYear(rows) ==
    \A i, j \in DOMAIN rows : i < j => rows[i].season_year <= rows[j].season_year

\* C7: X_train and X_test partition the input (no row lost or duplicated, y aligned
\* with X row for row), X_train followed by X_test is sorted by season_year
\* ascending, and every test row's season_year is >= every train row's.
C7_TemporalSplit ==
    splitOut.done =>
        LET Xall == Concat(splitOut.X_train, splitOut.X_test)
            yall == Concat(splitOut.y_train, splitOut.y_test)
            n == Len(splitIn.X)
        IN /\ Len(splitOut.X_train) + Len(splitOut.X_test) = n
           /\ Len(splitOut.y_train) = Len(splitOut.X_train)
           /\ Len(splitOut.y_test) = Len(splitOut.X_test)
           /\ \A i \in 1..n : \E k \in 1..n :
                    /\ Xall[k].idx = i
                    /\ \A k2 \in 1..n : Xall[k2].idx = i => k2 = k
                    /\ Xall[k].season_year = splitIn.X[i].season_year
                    /\ yall[k].idx = i
                    /\ yall[k].target = splitIn.y[i]
           /\ IsSortedByYear(Xall)
           /\ \A a \in DOMAIN splitOut.X_train, b \in DOMAIN splitOut.X_test :
                    splitOut.X_train[a].season_year <= splitOut.X_test[b].season_year

\* a split of MaxRows rows given with the latest year first and the earliest last
C7_Witness ==
    /\ splitOut.done
    /\ Len(splitIn.X) = MaxRows
    /\ splitIn.X[1].season_year = YearBase + 26
    /\ splitIn.X[MaxRows].season_year = YearBase + 24
    /\ splitIn.y[1] # splitIn.y[MaxRows]
    /\ Len(splitOut.X_train) > 0
    /\ Len(splitOut.X_test) > 0
    /\ splitOut.X_test[Len(splitOut.X_test)].idx = 1

\* C23: rows of equal season_year keep their input order through the sort (the sort
\* is stable), so the input order alone decides which of the rows tied at the
\* split boundary go to train and which to test.
C23_StableSort ==
    splitOut.done =>
        LET Xall == Concat(splitOut.X_train, splitOut.X_test)
        IN \A i, j \in DOMAIN Xall :
            (i < j /\ Xall[i].season_year = Xall[j].season_year) => Xall[i].idx < Xall[j].idx

-----------------------------------------------------------------------------
(* Model trainer: training.py, train_models_by_season *)

\* what a call of train_catboost / train_xgboost does: it raises, or it returns
\* the dict of the fitted model, the family name and the three test-set metrics
Raised(msg) == [raised |-> TRUE, error |-> msg]
FamilyResult(name, fit, mape, mae, rmse) ==
    [raised |-> FALSE,
     result |-> [model |-> [family |-> name, fit |-> fit], name |-> name,
                 mape |-> mape, mae |-> mae, rmse |-> rmse]]

\* results.append(...) for each family that did not raise: CatBoost, then XGBoost
Results(catboost, xgboost) ==
    (IF catboost.raised THEN <<>> ELSE <<catboost.result>>)
        \o (IF xgboost.raised THEN <<>> ELSE <<xgboost.result>>)

\* the entry of the highest MAPE, first on ties
MaxByMape(res) ==
    res[CHOOSE i \in DOMAIN res :
                /\ \A j \in DOMAIN res : res[i].mape >= res[j].mape
                /\ \A j \in DOMAIN res : j < i => res[j].mape < res[i].mape]

\* min(res, key=lambda x: x['mape']): the first entry of the lowest MAPE
MinByMape(res) ==
    res[CHOOSE i \in DOMAIN res :
                /\ \A j \in DOMAIN res : res[i].mape <= res[j].mape
                /\ \A j \in DOMAIN res : j < i => res[j].mape > res[i].mape]

\* the selection that lets a raising family fail the season
SelectOrRaiseAny(catboost, xgboost, season_type) ==
    IF catboost.raised \/ xgboost.raised
    THEN Raised("All models failed to train")
    ELSE LET best_result == MinByMape(Results(catboost, xgboost))
         IN [raised |-> FALSE,
             best_model |-> best_result.model,
             best_model_name |-> best_result.name,
             metrics |-> MetricsTriple(best_result.mape, best_result.mae, best_result.rmse),
             all_results |-> Results(catboost, xgboost),
             season_type |-> season_type]

\* train_models_by_season after the split (lines 268-306), given what the two
\* training calls did
train_models_by_season(catboost, xgboost, season_type) ==
    LET res == Results(catboost, xgboost)
    IN IF res = <<>>
       THEN Raised("All models failed to train")
       ELSE LET best_result == MinByMape(res)
            IN [raised |-> FALSE,
                best_model |-> best_result.model,
                best_model_name |-> best_result.name,
                metrics |-> MetricsTriple(best_result.mape, best_result.mae, best_result.rmse),
                all_results |-> res,
                season_type |-> season_type]

\* outcomes of one family's training, with every combination of metric values
FamilyOutcomes(name) ==
    {Raised("fit failed")} \cup
    {FamilyResult(name, 1, a, b, c) : a \in 0..MaxMetric, b \in 0..MaxMetric, c \in 0..MaxMetric}

SelInit ==
    /\ RegEmpty /\ SplitUnused /\ TrainUnused /\ PlanUnused /\ PredUnused /\ CallUnused /\ RaceUnused
    /\ \E st \in Seasons, cb \in FamilyOutcomes("CatBoost"), xgb \in FamilyOutcomes("XGBoost") :
            selIn = [season_type |-> st, catboost |-> cb, xgboost |-> xgb]
    /\ selOut = [done |-> FALSE]

TrainModelsBySeason ==
    /\ ~selOut.done
    /\ selOut' = [done |-> TRUE,
                  ret |-> train_models_by_season(selIn.catboost, selIn.xgboost, selIn.season_type)]
    /\ UNCHANGED <<selIn, notSel>>

SelNext == TrainModelsBySeason

SpecSelect == SelInit /\ [][SelNext]_vars

\* the results of the families that trained without raising
Succeeded(in) ==
    {f.result : f \in {g \in {in.catboost, in.xgboost} : ~g.raised}}

\* C8: train_models_by_season returns, among the families that trained without
\* raising, one of the lowest test-set MAPE; best_model, best_model_name and the
\* metrics triple all belong to that family, whose entry is in all_results.
C8_BestByMape ==
    (selOut.done /\ ~selOut.ret.raised) =>
        \E i \in DOMAIN selOut.ret.all_results :
            LET e == selOut.ret.all_results[i]
            IN /\ e \in Succeeded(selIn)
               /\ \A r \in Succeeded(selIn) : e.mape <= r.mape
               /\ selOut.ret.best_model = e.model
               /\ selOut.ret.best_model_name = e.name
               /\ e.model.family = e.name
               /\ selOut.ret.metrics = MetricsTriple(e.mape, e.mae, e.rmse)

\* both families trained and XGBoost, the second one, has the strictly lower MAPE
C8_Witness ==
    /\ selOut.done
    /\ ~selIn.catboost.raised /\ ~selIn.xgboost.raised
    /\ selIn.xgboost.result.mape < selIn.catboost.result.mape
    /\ selIn.xgboost.result.mae > selIn.catboost.result.mae
    /\ selOut.ret.best_model_name = "XGBoost"

-----------------------------------------------------------------------------
(* Training workflow: main.py, train_workflow *)

\* X and y as prepare_data_for_training returns them for n feature rows, the
\* latest season first
Prepared(n) ==
    [X |-> [i \in 1..n |-> [idx |-> i, season_year |-> YearBase + 30 - i]],
     y |-> [i \in 1..n |-> 1]]

\* the row counts prepare_data_for_training is taken to return
PreparedRows == {0, 1, MaxRows}

\* outcomes of one family's training in run `fit` of the workflow
WorkflowFamilyOutcomes(name, fit) ==
    {Raised("fit failed")} \cup {FamilyResult(name, fit, m, m, m) : m \in 0..MaxMetric}

\* after a season's try/except: PV is followed by OI, OI by the return; the
\* season's X, y and its training result are not used again
Advance(s) ==
    /\ IF s = "PV" THEN pc' = "prepare" /\ unit' = "OI"
       ELSE pc' = "done" /\ unit' = s
    /\ trX' = Prepared(0)
    /\ trained' = [done |-> FALSE]

\* an exception that no except clause catches: it leaves train_workflow
ExceptUncaught(s, msg) ==
    /\ pc' = "raised"
    /\ UNCHANGED <<unit, results, trX, trained>>

\* except Exception as e: results[season] = {'status': 'error', 'error': str(e)}
Except(s, msg) ==
    /\ results' = Put(results, s, [status |-> "error", error |-> msg])
    /\ Advance(s)

\* the model and metrics files on disk
Persisted == [models |-> modelFiles, metrics |-> metricsFiles]

\* a test that lets an empty feature matrix through to training
NotNegative(n) == n >= 0

\* `if len(X_pv) > 0:` (lines 41 / 63)
HasData(n) == n > 0

\* a call of train_workflow starts (lines 30-34)
StartTrain ==
    /\ pc \in {"idle", "done"}
    /\ runs < MaxRuns
    /\ runs' = runs + 1
    /\ pc' = "prepare" /\ unit' = "PV"
    /\ results' = <<>> /\ attempted' = {}
    /\ trX' = Prepared(0) /\ trained' = [done |-> FALSE] /\ trainCall' = [done |-> FALSE]
    /\ UNCHANGED <<regVars, notTrain>>

\* prepare_data_for_training raises (lines 39 / 61)
PrepareRaises ==
    /\ pc = "prepare"
    /\ attempted' = attempted \cup {unit}
    /\ Except(unit, "prepare failed")
    /\ trainCall' = [done |-> FALSE, season_type |-> unit, returned |-> FALSE, rows |-> 0,
                     before |-> Persisted]
    /\ UNCHANGED <<runs, regVars, notTrain>>

\* prepare_data_for_training returns and len(X) is tested (lines 39-41, 51-53)
PrepareReturns ==
    /\ pc = "prepare"
    /\ attempted' = attempted \cup {unit}
    /\ \E n \in PreparedRows :
        /\ IF HasData(n)
           THEN pc' = "train" /\ trX' = Prepared(n) /\ UNCHANGED <<unit, results, trained>>
           ELSE results' = Put(results, unit, [status |-> "no_data"]) /\ Advance(unit)
        /\ trainCall' = [done |-> FALSE, season_type |-> unit, returned |-> TRUE, rows |-> n,
                         before |-> Persisted]
    /\ UNCHANGED <<runs, regVars, notTrain>>

\* train_models_by_season(X, y, season) (lines 42 / 64): the split, the two
\* training calls and the selection
TrainSeason ==
    /\ pc = "train"
    /\ \E sp \in create_temporal_split(trX.X, trX.y),
          cb \in WorkflowFamilyOutcomes("CatBoost", runs),
          xgb \in WorkflowFamilyOutcomes("XGBoost", runs) :
        LET ret == train_models_by_season(cb, xgb, unit)
        IN /\ trainCall' = [done |-> TRUE, season_type |-> unit, returned |-> TRUE,
                            rows |-> Len(trX.X), before |-> trainCall.before,
                            catboost |-> cb, xgboost |-> xgb,
                            n_train |-> Len(sp.X_train), n_test |-> Len(sp.X_test), ret |-> ret]
           /\ IF ret.raised
              THEN Except(unit, ret.error)
              ELSE /\ trained' = [done |-> TRUE, ret |-> ret]
                   /\ pc' = "save_model"
                   /\ UNCHANGED <<unit, results, trX>>
    /\ UNCHANGED <<attempted, runs, regVars, notTrain>>

\* save_model raises before it has written anything (line 325)
SaveModelRaises ==
    /\ pc = "save_model"
    /\ Except(unit, "save failed")
    /\ UNCHANGED <<attempted, trainCall, runs, regVars, notTrain>>

\* save_model writes the model artifact (lines 43 / 65)
SaveModelStep ==
    /\ pc = "save_model"
    /\ SaveWriteModel("A", trained.ret.best_model, unit, trained.ret.best_model_name,
                      trained.ret.metrics)
    /\ pc' = "save_metrics"
    /\ UNCHANGED <<saveLog, allMetrics, nSaves>>
    /\ UNCHANGED <<unit, results, trX, trained, attempted, trainCall, runs, notTrain>>

\* save_model raises on opening the metrics file (line 340)
SaveMetricsRaises ==
    /\ pc = "save_metrics"
    /\ inflight' = Drop(inflight, "A")
    /\ Except(unit, "save failed")
    /\ UNCHANGED <<modelFiles, metricsFiles, saveLog, allMetrics, nSaves, regResult>>
    /\ UNCHANGED <<attempted, trainCall, runs, notTrain>>

\* save_model writes the metrics record and the season's entry is set (lines 43-50 / 65-72)
SaveMetricsStep ==
    /\ pc = "save_metrics"
    /\ SaveWriteMetrics("A")
    /\ results' = Put(results, unit,
                      [status |-> "success", model |-> trained.ret.best_model_name,
                       metrics |-> trained.ret.metrics, samples |-> Len(trX.X)])
    /\ Advance(unit)
    /\ UNCHANGED <<saveLog, allMetrics, nSaves>>
    /\ UNCHANGED <<attempted, trainCall, runs, notTrain>>

TrainInit ==
    /\ RegEmpty /\ SplitUnused /\ SelUnused /\ PlanUnused /\ PredUnused /\ CallUnused /\ RaceUnused
    /\ pc = "idle" /\ unit = "PV" /\ trX = Prepared(0)
    /\ trained = [done |-> FALSE] /\ results = <<>> /\ attempted = {}
    /\ trainCall = [done |-> FALSE] /\ runs = 0

TrainNext ==
    \/ StartTrain
    \/ PrepareRaises
    \/ PrepareReturns
    \/ TrainSeason
    \/ SaveModelRaises
    \/ SaveModelStep
    \/ SaveMetricsRaises
    \/ SaveMetricsStep

SpecTrain == TrainInit /\ [][TrainNext]_vars

Statuses == {"success", "no_data", "error"}

\* C3: whatever the PV unit does (success, no_data, or an exception in preparing,
\* training or saving), the OI unit is attempted next; train_workflow never raises
\* and returns a result holding exactly the entries PV and OI, each with a status
\* in {success, no_data, error}.
C3_BothSeasonsAttempted ==
    /\ pc # "raised"
    /\ pc = "done" =>
            /\ DOMAIN results = Seasons
            /\ \A s \in Seasons : results[s].status \in Statuses
            /\ attempted = Seasons
    /\ "PV" \in DOMAIN results =>
            /\ unit = "OI"
            /\ pc = "prepare" \/ "OI" \in attempted

\* the workflow returned after PV ended in an error and OI succeeded
C3_Witness ==
    /\ pc = "done"
    /\ results["PV"].status = "error"
    /\ results["OI"].status = "success"

\* C9: train_models_by_season raises iff every family raises; a family that raised
\* is absent from all_results and the winner is one of the others; when all
\* raise, train_workflow records status 'error' with the exception's message.
C9_FamilyFailureExcluded ==
    trainCall.done =>
        LET cb == trainCall.catboost
            xgb == trainCall.xgboost
            ret == trainCall.ret
        IN /\ ret.raised <=> (cb.raised /\ xgb.raised)
           /\ ~ret.raised =>
                /\ cb.raised => \A i \in DOMAIN ret.all_results : ret.all_results[i].name # "CatBoost"
                /\ xgb.raised => \A i \in DOMAIN ret.all_results : ret.all_results[i].name # "XGBoost"
                /\ ~cb.raised => \E i \in DOMAIN ret.all_results : ret.all_results[i] = cb.result
                /\ ~xgb.raised => \E i \in DOMAIN ret.all_results : ret.all_results[i] = xgb.result
                /\ \E i \in DOMAIN ret.all_results :
                        /\ ret.all_results[i].name = ret.best_model_name
                        /\ ret.all_results[i].model = ret.best_model
           /\ ret.raised =>
                /\ ret.error = "All models failed to train"
                /\ results[trainCall.season_type] = [status |-> "error", error |-> ret.error]

\* PV ended in the error of all families failing; in OI CatBoost raised and the
\* season still succeeded with XGBoost
C9_Witness ==
    /\ pc = "done"
    /\ results["PV"] = [status |-> "error", error |-> "All models failed to train"]
    /\ trainCall.done /\ trainCall.season_type = "OI"
    /\ trainCall.catboost.raised /\ ~trainCall.xgboost.raised
    /\ results["OI"].status = "success"
    /\ results["OI"].model = "XGBoost"

\* C14: a season's entry is 'no_data' exactly when the feature builder returned zero
\* rows for it; then no model is trained and no model or metrics file is written
\* for the season; an entry is 'success' only once the season's model and metrics
\* are saved.
C14_NoDataExactlyWhenEmpty ==
    [][\A s \in Seasons :
        /\ (pc = "prepare" /\ unit = s /\ trainCall'.returned /\ trainCall'.rows = 0) =>
                /\ s \in DOMAIN results'
                /\ results'[s] = [status |-> "no_data"]
        /\ (s \in DOMAIN results' /\ s \notin DOMAIN results) =>
                /\ results'[s].status = "no_data" <=>
                        (/\ trainCall'.season_type = s
                         /\ trainCall'.returned
                         /\ trainCall'.rows = 0)
                /\ results'[s].status = "no_data" =>
                        /\ pc = "prepare"
                        /\ ~trainCall'.done
                        /\ modelFiles' = modelFiles
                        /\ metricsFiles' = metricsFiles
                /\ results'[s].status = "success" =>
                        /\ trainCall'.done /\ trainCall'.season_type = s
                        /\ ModelPath(s, results'[s].model) \in DOMAIN modelFiles'
                        /\ modelFiles'[ModelPath(s, results'[s].model)] = trainCall'.ret.best_model
                        /\ MetricsPath(s) \in DOMAIN metricsFiles'
                        /\ metricsFiles'[MetricsPath(s)].model_name = results'[s].model
                        /\ metricsFiles'[MetricsPath(s)].metrics = SavedMetrics(results'[s])
    ]_vars

\* one call returned: PV had no rows and has no file, OI succeeded and has its files
C14_Witness ==
    /\ pc = "done" /\ runs = 1
    /\ results["PV"] = [status |-> "no_data"]
    /\ results["OI"].status = "success"
    /\ GlobModels(modelFiles, "PV") = {}
    /\ MetricsPath("PV") \notin DOMAIN metricsFiles
    /\ GlobModels(modelFiles, "OI") # {}

\* C30: with test_size 0.2 the split of n >= 1 rows puts floor(0.8 n) rows in the
\* training set: the test set has at least one row and the training set is
\* non-empty exactly when n >= 2; a season with one feature row is not reported as
\* no_data but goes to training with an empty training set.
C30_SplitSizes ==
    /\ pc = "train" => Len(trX.X) >= 1
    /\ (trainCall.done /\ trainCall.returned) =>
            LET n == trainCall.rows
            IN /\ n >= 1
               /\ 100 * trainCall.n_train <= (100 - TestSizePct) * n
               /\ (100 - TestSizePct) * n < 100 * (trainCall.n_train + 1)
               /\ trainCall.n_test = n - trainCall.n_train
               /\ trainCall.n_test >= 1
               /\ (trainCall.n_train > 0) <=> (n >= 2)
    /\ \A s \in Seasons :
            (("season_type" \in DOMAIN trainCall /\ trainCall.season_type = s
                    /\ trainCall.returned /\ trainCall.rows = 1) =>
                /\ trainCall.done \/ (pc = "train" /\ unit = s)
                /\ (s \in DOMAIN results => results[s].status # "no_data")
                /\ (trainCall.done => (trainCall.n_train = 0 /\ trainCall.n_test = 1)))

\* a season prepared with one feature row was trained on an empty training set
C30_Witness ==
    /\ trainCall.done /\ trainCall.returned
    /\ trainCall.rows = 1
    /\ trainCall.n_train = 0 /\ trainCall.n_test = 1
    /\ trainCall.season_type \in DOMAIN results
    /\ results[trainCall.season_type].status = "success"

\* the model artifacts and the metrics record of season s among the files `reg`
ArtifactsOf(reg, s) ==
    [models |-> [p \in GlobModels(reg.models, s) |-> reg.models[p]],
     metrics |-> [p \in {MetricsPath(s)} \cap DOMAIN reg.metrics |-> reg.metrics[p]]]

\* C28: a training run that ends with status 'error' or 'no_data' for a season leaves
\* that season's model artifacts and metrics record as they were before the run, and
\* the run of one season never changes the artifacts or metrics of the other season.
C28_FailedRunKeepsArtifacts ==
    \A s \in Seasons :
        ("season_type" \in DOMAIN trainCall /\ trainCall.season_type = s) =>
            /\ (s \in DOMAIN results /\ results[s].status \in {"error", "no_data"}) =>
                    ArtifactsOf(Persisted, s) = ArtifactsOf(trainCall.before, s)
            /\ \A t \in Seasons \ {s} :
                    ArtifactsOf(Persisted, t) = ArtifactsOf(trainCall.before, t)

-----------------------------------------------------------------------------
(* Purchase plan builder: plan_compras.py, build_plan_compras *)

(* A table is [cols, rows]: the set of its column names and the sequence of its   *)
(* rows; a row's field of a column the table does not have is never read.         *)
(* Quantities are counted in halves of a unit (3 is 1.5 units); prices are whole. *)
(* A numeric cell is Cell(v); NotNumeric is a cell pd.to_numeric cannot convert   *)
(* (text, or a missing value). A missing section label is "NaN".                  *)

Cell(v) == [num |-> TRUE, v |-> v]
NotNumeric == [num |-> FALSE]

\* required_cols (line 41)
RequiredCols == {"SECCION", "Cantidad_Predicha", "Precio Coste", "P.V.P."}
PlanCols == RequiredCols \cup {"Artículo", "Talla"}

\* pd.to_numeric(column, errors='coerce').fillna(0)
ToNumeric(cell) == IF cell.num THEN cell ELSE Cell(0)

\* lines 46-49: the three numeric columns are converted in the caller's table
Coerce(table) ==
    [cols |-> table.cols,
     rows |-> [i \in DOMAIN table.rows |->
                [table.rows[i] EXCEPT !.qty = ToNumeric(@), !.cost = ToNumeric(@),
                                      !.pvp = ToNumeric(@)]]]

RECURSIVE SeqSum(_)
SeqSum(q) == IF q = <<>> THEN 0 ELSE Head(q) + SeqSum(Tail(q))

\* the rows of one group of df_pred.groupby('SECCION'), in table order
RECURSIVE Group(_, _)
Group(rows, seccion) ==
    IF rows = <<>> THEN <<>>
    ELSE IF Head(rows).seccion = seccion THEN <<Head(rows)>> \o Group(Tail(rows), seccion)
    ELSE Group(Tail(rows), seccion)

\* the keys groupby iterates over: pandas drops the rows whose key is missing
GroupKeys(rows) == {rows[i].seccion : i \in DOMAIN rows} \ {"NaN"}

\* int(x) of x = h / 2: truncation towards zero
IntOfHalves(h) == IF h >= 0 THEN h \div 2 ELSE -((-h) \div 2)

\* round(x, n) of x = num / den (den > 0), in units of 10^-n when num is: numpy
\* rounds x * 10^n to the nearest integer, a half to the even one
RoundHalfEven(num, den) ==
    LET q == num \div den
        r == num - q * den
    IN IF 2 * r < den THEN q
       ELSE IF 2 * r > den THEN q + 1
       ELSE IF q % 2 = 0 THEN q ELSE q + 1

\* markdown_defaults.get(seccion, 15.0) and sobrante_defaults.get(seccion, 8.0), in tenths
MarkdownDefault == 150
SobranteDefault == 80

\* Series.nunique(): the distinct values that are not missing
NUniqueOf(values) == Cardinality(values \ {"NaN"})

\* one entry of `plan` (lines 55-104). uds, pvp_total and coste_total are in halves;
\* UDS and Opc are whole, PVP, COSTE, PM Cte and PM Vta are in hundredths,
\* Mk, Prof, x tienda and x talla in tenths
PlanRow(seccion, cols, group, num_tiendas) ==
    LET uds == SeqSum([i \in DOMAIN group |-> group[i].qty.v])
        pvp_total == SeqSum([i \in DOMAIN group |-> group[i].qty.v * group[i].pvp.v])
        coste_total == SeqSum([i \in DOMAIN group |-> group[i].qty.v * group[i].cost.v])
        opc == IF "Artículo" \in cols
               THEN NUniqueOf({group[i].articulo : i \in DOMAIN group})
               ELSE Len(group)
        num_tallas == NUniqueOf({group[i].talla : i \in DOMAIN group})
    IN [SECCION |-> seccion,
        UDS |-> IntOfHalves(uds),
        PVP |-> pvp_total * 50,
        COSTE |-> coste_total * 50,
        Opc |-> opc,
        PM_Cte |-> IF uds > 0 THEN RoundHalfEven(100 * coste_total, uds) ELSE 0,
        PM_Vta |-> IF uds > 0 THEN RoundHalfEven(100 * pvp_total, uds) ELSE 0,
        Mk |-> IF coste_total > 0
               THEN RoundHalfEven(1000 * (pvp_total - coste_total), coste_total) ELSE 0,
        Prof |-> IF opc > 0 THEN RoundHalfEven(10 * uds, 2 * opc) ELSE 0,
        MARKDOWN |-> MarkdownDefault,
        SOBRANTE |-> SobranteDefault,
        x_tienda |-> IF num_tiendas > 0 THEN RoundHalfEven(10 * uds, 2 * num_tiendas) ELSE 0,
        x_talla |-> IF "Talla" \in cols /\ num_tallas > 0
                    THEN RoundHalfEven(10 * uds, 2 * num_tallas) ELSE 0]

\* plan_df['PVP'].sum() and plan_df['COSTE'].sum() (lines 108-109)
RECURSIVE TotalPvp(_)
TotalPvp(plan) ==
    IF plan = {} THEN 0
    ELSE LET r == CHOOSE x \in plan : TRUE IN r.PVP + TotalPvp(plan \ {r})

RECURSIVE TotalCoste(_)
TotalCoste(plan) ==
    IF plan = {} THEN 0
    ELSE LET r == CHOOSE x \in plan : TRUE IN r.COSTE + TotalCoste(plan \ {r})

\* lines 111-116: a section's share of a plan total, in tenths of a percent
Share(part, total) == IF total > 0 THEN RoundHalfEven(1000 * part, total) ELSE 0

\* the plan rows with '% seccion' and 'CONTRI.' added
WithShares(plan) ==
    LET total_pvp == TotalPvp(plan)
        total_coste == TotalCoste(plan)
    IN {[SECCION |-> r.SECCION, UDS |-> r.UDS, PVP |-> r.PVP, COSTE |-> r.COSTE,
         Opc |-> r.Opc, PM_Cte |-> r.PM_Cte, PM_Vta |-> r.PM_Vta, Mk |-> r.Mk,
         Prof |-> r.Prof, MARKDOWN |-> r.MARKDOWN, SOBRANTE |-> r.SOBRANTE,
         x_tienda |-> r.x_tienda, x_talla |-> r.x_talla,
         pct_seccion |-> Share(r.PVP, total_pvp),
         CONTRI |-> Share(r.COSTE, total_coste)] : r \in plan}

\* plan_df.sort_values('PVP', ascending=False): rows of equal PVP in any order
RECURSIVE SortByPvpDesc(_)
SortByPvpDesc(rows) ==
    IF rows = {} THEN {<<>>}
    ELSE LET top == {r \in rows : \A q \in rows : r.PVP >= q.PVP}
         IN UNION {{<<r>> \o rest : rest \in SortByPvpDesc(rows \ {r})} : r \in top}

\* a check of the required columns that looks only for the section column
MissingSectionOnly(table) == {"SECCION"} \ table.cols

\* missing_cols (line 42)
MissingCols(table) == RequiredCols \ table.cols

\* build_plan_compras(df_pred, num_tiendas): the outcomes the final sort allows; each
\* gives the exception raised or the plan returned, and the caller's table afterwards
build_plan_compras(table, num_tiendas) ==
    IF MissingCols(table) # {}
    THEN {[done |-> TRUE, raised |-> TRUE, error |-> "ValueError", plan |-> <<>>, table |-> table]}
    ELSE LET df == Coerce(table)
             plan == {PlanRow(k, df.cols, Group(df.rows, k), num_tiendas) :
                        k \in GroupKeys(df.rows)}
         IN IF plan = {}
            THEN \* pd.DataFrame([]) has no column 'PVP' (line 108)
                 {[done |-> TRUE, raised |-> TRUE, error |-> "KeyError", plan |-> <<>>, table |-> df]}
            ELSE {[done |-> TRUE, raised |-> FALSE, plan |-> sorted, table |-> df] :
                        sorted \in SortByPvpDesc(WithShares(plan))}

\* section labels of the predictions tables, "NaN" for a missing one
PlanSections == <<"A", "B", "C", "NaN">>

\* what the rest of a row may hold: a whole and a fractional quantity, a zero one,
\* one that is not a number, and a row of cost 0 without article or size
PlanRowKinds ==
    << [qty |-> Cell(2), cost |-> Cell(1), pvp |-> Cell(2), articulo |-> "a1", talla |-> "M"],
       [qty |-> Cell(1), cost |-> Cell(1), pvp |-> Cell(2), articulo |-> "a2", talla |-> "M"],
       [qty |-> Cell(0), cost |-> Cell(1), pvp |-> Cell(2), articulo |-> "a1", talla |-> "M"],
       [qty |-> NotNumeric, cost |-> Cell(1), pvp |-> Cell(2), articulo |-> "a1", talla |-> "M"],
       [qty |-> Cell(2), cost |-> Cell(0), pvp |-> Cell(2), articulo |-> "NaN", talla |-> "NaN"] >>

\* the k-th row the predictions tables are made of
PlanInputRow(k) ==
    LET kind == PlanRowKinds[((k - 1) \div Len(PlanSections)) + 1]
    IN [seccion |-> PlanSections[((k - 1) % Len(PlanSections)) + 1],
        qty |-> kind.qty, cost |-> kind.cost, pvp |-> kind.pvp,
        articulo |-> kind.articulo, talla |-> kind.talla]

PlanInputRows == {PlanInputRow(k) : k \in 1..(Len(PlanSections) * Len(PlanRowKinds))}

\* predictions tables of n rows: every column, or all but one. The
\* builder sums over groups, so one order of each collection of rows is enumerated.
PlanInputs(n) ==
    LET Ks == 1..(Len(PlanSections) * Len(PlanRowKinds))
        ordered == {f \in [1..n -> Ks] : \A i \in 1..(n - 1) : f[i] <= f[i + 1]}
    IN {[cols |-> PlanCols \ d, rows |-> [i \in DOMAIN f |-> PlanInputRow(f[i])]] :
            d \in {{}} \cup {{c} : c \in PlanCols}, f \in ordered}

\* num_tiendas: int = 10 (plan_compras.py line 16, main.py line 87)
NumTiendasDefault == 10

PlanInit ==
    /\ RegEmpty /\ SplitUnused /\ SelUnused /\ TrainUnused /\ PredUnused /\ CallUnused /\ RaceUnused
    /\ \E n \in 0..MaxPlanRows : planArg \in PlanInputs(n)
    /\ dfPred = planArg
    /\ planOut = [done |-> FALSE]
    /\ numTiendas \in {0, NumTiendasDefault}

BuildPlanCompras ==
    /\ ~planOut.done
    /\ \E out \in build_plan_compras(dfPred, numTiendas) :
        /\ planOut' = [done |-> TRUE, raised |-> out.raised,
                       error |-> IF out.raised THEN out.error ELSE "", plan |-> out.plan]
        /\ dfPred' = out.table
    /\ UNCHANGED <<planArg, numTiendas, notPlan>>

PlanNext == BuildPlanCompras

SpecPlan == PlanInit /\ [][PlanNext]_vars

\* the sum of the input's predicted quantities, in halves (a cell that is not a
\* number counts as the 0 it is converted to)
InputQuantity(table) ==
    SeqSum([i \in DOMAIN table.rows |-> ToNumeric(table.rows[i].qty).v])

\* C5: for every predictions table build_plan_compras accepts, the UDS of the plan
\* rows sum to the sum of the predicted quantities of all input rows.
C5_UnitsReconcile ==
    (planOut.done /\ ~planOut.raised) =>
        2 * SeqSum([i \in DOMAIN planOut.plan |-> planOut.plan[i].UDS]) = InputQuantity(planArg)

\* C10: build_plan_compras raises its explicit error whenever one of the four
\* required columns is absent, before it modifies the input table or makes a plan row.
C10_MissingColumnRaises ==
    (planOut.done /\ ~(RequiredCols \subseteq planArg.cols)) =>
        /\ planOut.raised
        /\ planOut.error = "ValueError"
        /\ planOut.plan = <<>>
        /\ dfPred = planArg

\* a table lacking the list price column, one of whose quantities is not a number
C10_Witness ==
    /\ planOut.done
    /\ planArg.cols = PlanCols \ {"P.V.P."}
    /\ Len(planArg.rows) = MaxPlanRows
    /\ ~planArg.rows[1].qty.num
    /\ planArg.rows[1].seccion = "A"
    /\ planOut.raised

\* the rows of the section `seccion` in the table as build_plan_compras groups it
SectionGroup(seccion) == Group(Coerce(planArg).rows, seccion)

\* C25: for each section of the predictions table there is exactly one plan row, with
\* UDS the sum of the predicted quantities, PVP the sum of quantity x list price,
\* COSTE the sum of quantity x cost price, Opc the number of distinct products,
\* Mk = (PVP - COSTE) / COSTE x 100 and Prof = UDS / Opc (ratios to one decimal).
C25_PlanRowOfSection ==
    (planOut.done /\ ~planOut.raised) =>
        /\ \A i \in DOMAIN planOut.plan : planOut.plan[i].SECCION \in GroupKeys(planArg.rows)
        /\ \A seccion \in GroupKeys(planArg.rows) :
            LET group == SectionGroup(seccion)
                uds == SeqSum([j \in DOMAIN group |-> group[j].qty.v])
                pvp_total == SeqSum([j \in DOMAIN group |-> group[j].qty.v * group[j].pvp.v])
                coste_total == SeqSum([j \in DOMAIN group |-> group[j].qty.v * group[j].cost.v])
                opc == IF "Artículo" \in planArg.cols
                       THEN NUniqueOf({group[j].articulo : j \in DOMAIN group})
                       ELSE Len(group)
            IN /\ Cardinality({i \in DOMAIN planOut.plan : planOut.plan[i].SECCION = seccion}) = 1
               /\ \A i \in DOMAIN planOut.plan :
                    planOut.plan[i].SECCION = seccion =>
                        LET r == planOut.plan[i]
                        IN /\ 2 * r.UDS = uds
                           /\ r.PVP = 50 * pvp_total
                           /\ r.COSTE = 50 * coste_total
                           /\ r.Opc = opc
                           /\ r.COSTE > 0 => r.Mk = RoundHalfEven(1000 * (r.PVP - r.COSTE), r.COSTE)
                           /\ r.Opc > 0 => r.Prof = RoundHalfEven(10 * r.UDS, r.Opc)

\* C11: for every input with the required columns, store count 0 and sections or
\* plans of total 0 included, build_plan_compras does not raise and every ratio
\* (PM Cte, PM Vta, Mk, Prof, x tienda, x talla, % seccion, CONTRI.) whose
\* denominator is 0 is 0.
C11_ZeroDenominators ==
    (planOut.done /\ RequiredCols \subseteq planArg.cols) =>
        /\ ~planOut.raised
        /\ \A i \in DOMAIN planOut.plan :
            LET r == planOut.plan[i]
                group == SectionGroup(r.SECCION)
                uds == SeqSum([j \in DOMAIN group |-> group[j].qty.v])
                coste_total == SeqSum([j \in DOMAIN group |-> group[j].qty.v * group[j].cost.v])
                opc == IF "Artículo" \in planArg.cols
                       THEN NUniqueOf({group[j].articulo : j \in DOMAIN group})
                       ELSE Len(group)
                num_tallas == IF "Talla" \in planArg.cols
                              THEN NUniqueOf({group[j].talla : j \in DOMAIN group})
                              ELSE 0
                total_pvp == SeqSum([j \in DOMAIN planOut.plan |-> planOut.plan[j].PVP])
                total_coste == SeqSum([j \in DOMAIN planOut.plan |-> planOut.plan[j].COSTE])
            IN /\ (uds = 0 => (r.PM_Cte = 0 /\ r.PM_Vta = 0))
               /\ (coste_total = 0 => r.Mk = 0)
               /\ (opc = 0 => r.Prof = 0)
               /\ (numTiendas = 0 => r.x_tienda = 0)
               /\ (num_tallas = 0 => r.x_talla = 0)
               /\ (total_pvp = 0 => r.pct_seccion = 0)
               /\ (total_coste = 0 => r.CONTRI = 0)

\* C12: in the returned plan the '% seccion' values (as output, rounded to one
\* decimal) sum to 100 when total PVP > 0 and the 'CONTRI.' values sum to 100 when
\* total COSTE > 0; when the respective total is 0 every share is 0.
C12_SharesSumTo100 ==
    (planOut.done /\ ~planOut.raised) =>
        LET plan == planOut.plan
            total_pvp == SeqSum([j \in DOMAIN plan |-> plan[j].PVP])
            total_coste == SeqSum([j \in DOMAIN plan |-> plan[j].COSTE])
        IN /\ (total_pvp > 0 => SeqSum([j \in DOMAIN plan |-> plan[j].pct_seccion]) = 1000)
           /\ (total_coste > 0 => SeqSum([j \in DOMAIN plan |-> plan[j].CONTRI]) = 1000)
           /\ (total_pvp = 0 => \A j \in DOMAIN plan : plan[j].pct_seccion = 0)
           /\ (total_coste = 0 => \A j \in DOMAIN plan : plan[j].CONTRI = 0)

-----------------------------------------------------------------------------
(* Forecast generator and prediction workflow: prediction.py, main.py *)

(* The cleaned table is [cols, rows]; a row has season_type ("None" when the      *)
(* theme gave no season), season_year, the three labelling columns, the article,  *)
(* the size and the two prices. clean_data fills the missing values of 'Línea     *)
(* Producto' and 'Nombre TPV' but not those of 'Familia', which may be "NaN".     *)
(* Model outputs and predicted quantities are counted in halves of a unit.        *)

\* an exception raised inside the workflow: its class and str(e)
Exc(type, msg) == [raised |-> TRUE, type |-> type, error |-> msg]

\* df['season_type'].notna()
HasSeason(row) == row.season_type # "None"

\* the first row with a season, whatever its year
detect_first_season(df) ==
    LET df_seasons == SelectSeq(df.rows, HasSeason)
    IN IF Len(df_seasons) = 0
       THEN [none |-> TRUE]
       ELSE [none |-> FALSE,
             season_type |-> df_seasons[1].season_type,
             season_year |-> df_seasons[1].season_year]

\* detect_latest_season(df): None, or the row of the first maximal season_year
detect_latest_season(df) ==
    LET df_seasons == SelectSeq(df.rows, HasSeason)
    IN IF Len(df_seasons) = 0
       THEN [none |-> TRUE]
       ELSE LET idxmax == CHOOSE i \in DOMAIN df_seasons :
                            /\ \A j \in DOMAIN df_seasons :
                                    df_seasons[j].season_year <= df_seasons[i].season_year
                            /\ \A j \in 1..(i - 1) :
                                    df_seasons[j].season_year < df_seasons[i].season_year
            IN [none |-> FALSE,
                season_type |-> df_seasons[idxmax].season_type,
                season_year |-> df_seasons[idxmax].season_year]

\* f"{season_type}{str(season_year)[-2:]}": the type and the year's last two digits
SeasonLabel(season_type, season_year) ==
    [season_type |-> season_type,
     digits |-> <<(season_year \div 10) % 10, season_year % 10>>]

\* a floor that lets every model output through
KeepOutput(v) == v

\* np.maximum(0, y_pred), elementwise
Maximum0(v) == IF 0 >= v THEN 0 ELSE v

\* the value of a labelling column in a row
ColumnValue(row, col) ==
    CASE col = "Familia" -> row.familia
      [] col = "Línea Producto" -> row.linea
      [] col = "Nombre TPV" -> row.tpv

\* a count of distinct values that takes the missing value for one of them
NUniqueWithNaN(rows, col) ==
    Cardinality({ColumnValue(rows[i], col) : i \in DOMAIN rows})

\* df_pred[candidate].nunique(dropna=True)
NUnique(rows, col) ==
    Cardinality({ColumnValue(rows[i], col) : i \in DOMAIN rows} \ {"NaN"})

\* section_candidates (line 121), in priority order
SectionCandidates == <<"Familia", "Línea Producto", "Nombre TPV">>

\* lines 122-136: the first candidate present with more than one distinct value
SectionColumn(cols, rows) ==
    LET ok == {k \in DOMAIN SectionCandidates :
                  /\ SectionCandidates[k] \in cols
                  /\ NUnique(rows, SectionCandidates[k]) > 1}
    IN IF ok = {} THEN "SECCION"
       ELSE SectionCandidates[CHOOSE k \in ok : \A j \in ok : k <= j]

\* output_columns (lines 138-142) that the table has, the label renamed to SECCION
OutputCols(cols) ==
    {"SECCION"} \cup
    ({"Artículo", "Talla", "Precio Coste", "P.V.P.", "Cantidad_Predicha"}
        \cap (cols \cup {"Cantidad_Predicha"}))

\* df_output (lines 144-149) for the predicted quantities y_pred
PredictionsDf(cols, rows, y_pred) ==
    LET section_column == SectionColumn(cols, rows)
    IN [cols |-> OutputCols(cols),
        rows |-> [i \in DOMAIN rows |->
                   [seccion |-> IF section_column = "SECCION" THEN "Producto"
                                ELSE ColumnValue(rows[i], section_column),
                    qty |-> Cell(y_pred[i]),
                    cost |-> rows[i].cost,
                    pvp |-> rows[i].pvp,
                    articulo |-> rows[i].articulo,
                    talla |-> rows[i].talla]]]

\* what model.predict may emit for one row
RawOutputs == {-1, 1, 2}

\* generate_forecast(df, target_season_choice) against the model files `files`:
\* the exception raised, or one result per output the loaded model may emit
generate_forecast(df, target_season_choice, files) ==
    LET latest == detect_latest_season(df)
    IN IF latest.none
       THEN {Exc("ValueError", "No valid seasons found in data")}
       ELSE IF target_season_choice \notin {"next_PV", "next_OI"}
       THEN {Exc("ValueError", "Invalid target_season_choice")}
       ELSE
       LET target_season_type == IF target_season_choice = "next_PV" THEN "PV" ELSE "OI"
           target_season_year == latest.season_year + 1
           loaded == load_model(files, target_season_type)
           OfTarget(row) == row.season_type = target_season_type
           df_hist == SelectSeq(df.rows, OfTarget)
           df_pred == [i \in DOMAIN df_hist |->
                        [df_hist[i] EXCEPT !.season_year = target_season_year]]
           X_pred == SelectSeq(df_pred, OfTarget)
       IN IF loaded.raised
          THEN {Exc("FileNotFoundError", "No model found for season")}
          ELSE IF Len(df_pred) = 0
          THEN {Exc("ValueError", "No historical data found for season type")}
          ELSE {Exc("ValueError", "model.predict failed")} \cup
               {[raised |-> FALSE,
                 model |-> loaded.model,
                 X_pred |-> X_pred,
                 raw |-> raw,
                 season_label |-> SeasonLabel(target_season_type, target_season_year),
                 season_type |-> target_season_type,
                 season_year |-> target_season_year,
                 predictions_df |->
                     PredictionsDf(df.cols, df_pred, [i \in DOMAIN raw |-> Maximum0(raw[i])]),
                 total_skus |-> Len(df_pred),
                 total_predicted_units |-> SeqSum([i \in DOMAIN raw |-> Maximum0(raw[i])])] :
                    raw \in [1..Len(X_pred) -> RawOutputs]}

\* the try body of predict_workflow (lines 104-165): the exception it raises or
\* the result it returns; `forecast` keeps what generate_forecast did
TryBody(df, target_season, files, mfiles) ==
    {[raised |-> TRUE, exc |-> Exc("FileNotFoundError", "load_excel failed"),
      forecast |-> [called |-> FALSE]]}
    \cup UNION {
        IF f.raised
        THEN {[raised |-> TRUE, exc |-> f, forecast |-> [called |-> TRUE, out |-> f]]}
        ELSE LET model_metadata == load_model_metrics(mfiles, f.season_type)
             IN {[raised |-> TRUE, exc |-> Exc("JSONDecodeError", "metrics file unreadable"),
                  forecast |-> [called |-> TRUE, out |-> f]] :
                        x \in {MetricsPath(f.season_type)} \cap DOMAIN mfiles}
                \cup
                {IF plan.raised
                 THEN [raised |-> TRUE, exc |-> Exc(plan.error, "build_plan_compras failed"),
                       forecast |-> [called |-> TRUE, out |-> f]]
                 ELSE [raised |-> FALSE,
                       forecast |-> [called |-> TRUE, out |-> f],
                       result |->
                         [status |-> "success",
                          temporada_objetivo |-> f.season_label,
                          modelo_ganador |-> model_metadata.model_name,
                          mape |-> model_metadata.metrics.mape,
                          mae |-> model_metadata.metrics.mae,
                          rmse |-> model_metadata.metrics.rmse,
                          plan_compras |-> plan.plan,
                          season_type |-> f.season_type,
                          season_year |-> f.season_year,
                          total_skus |-> f.total_skus,
                          total_predicted_units |-> f.total_predicted_units,
                          total_uds |-> SeqSum([i \in DOMAIN plan.plan |-> plan.plan[i].UDS])]] :
                    plan \in build_plan_compras(f.predictions_df, NumTiendasDefault)}
        : f \in generate_forecast(df, target_season, files)}

\* a handler for ValueError alone: any other exception leaves the workflow
ExceptValueError(body) ==
    IF ~body.raised THEN [escaped |-> FALSE, result |-> body.result]
    ELSE IF body.exc.type = "ValueError"
    THEN [escaped |-> FALSE, result |-> [status |-> "error", error |-> body.exc.error]]
    ELSE [escaped |-> TRUE, exception |-> body.exc]

\* `except Exception as e` (lines 167-172)
ExceptException(body) ==
    IF ~body.raised THEN [escaped |-> FALSE, result |-> body.result]
    ELSE [escaped |-> FALSE, result |-> [status |-> "error", error |-> body.exc.error]]

\* the descriptive values of a row: family, product line, store
LabelKinds ==
    {<<"F1", "L1", "T1">>, <<"F2", "L1", "T1">>, <<"NaN", "L1", "T1">>,
     <<"F1", "L2", "T1">>, <<"NaN", "L1", "T2">>}

\* the rows of the cleaned tables
PredInputRows ==
    {[season_type |-> ss[1], season_year |-> ss[2],
      familia |-> k[1], linea |-> k[2], tpv |-> k[3],
      articulo |-> "a1", talla |-> "M", cost |-> Cell(1), pvp |-> Cell(2)] :
        ss \in {<<"PV", YearBase + 25>>, <<"OI", YearBase + 26>>, <<"None", 0>>},
        k \in LabelKinds}

BaseCols == {"season_type", "season_year", "Nombre TPV", "Artículo", "Talla",
             "Precio Coste", "P.V.P."}

\* the calls on cleaned tables of n rows
PredInputs(n) ==
    {[df |-> [cols |-> BaseCols \cup extra, rows |-> r], target_season |-> t] :
        extra \in {{"Familia", "Línea Producto"}, {"Línea Producto"}, {}},
        r \in [1..n -> PredInputRows],
        t \in {"next_PV", "next_OI", "next"}}

\* the registry after a save of `n` for season `s` with metrics
Saved(reg, s, n) ==
    [models |-> WriteModelFile(reg.models, s, n, [family |-> n, fit |-> 1]),
     metrics |-> WriteMetricsFile(reg.metrics, s, n, MetricsTriple(0, 0, 0))]

\* registries the workflow may find: empty, or left by one or three saves
Registries ==
    LET empty == [models |-> <<>>, metrics |-> <<>>]
    IN {empty, Saved(empty, "PV", "CatBoost"),
        Saved(Saved(Saved(empty, "PV", "XGBoost"), "PV", "CatBoost"), "OI", "CatBoost")}

PredInit ==
    /\ SplitUnused /\ SelUnused /\ TrainUnused /\ PlanUnused /\ CallUnused /\ RaceUnused
    /\ \E reg \in Registries : modelFiles = reg.models /\ metricsFiles = reg.metrics
    /\ inflight = <<>> /\ saveLog = <<>> /\ allMetrics = [s \in Seasons |-> TRUE]
    /\ nSaves = 0 /\ regResult = [op |-> "none"]
    /\ \E n \in 0..MaxPredRows : predIn \in PredInputs(n)
    /\ predOut = [done |-> FALSE]

PredictWorkflow ==
    /\ ~predOut.done
    /\ \E body \in TryBody(predIn.df, predIn.target_season, modelFiles, metricsFiles) :
        predOut' = [done |-> TRUE, body |-> body, ret |-> ExceptException(body)]
    /\ UNCHANGED <<predIn, notPred>>

PredNext == PredictWorkflow

SpecPredict == PredInit /\ [][PredNext]_vars

\* the season type the choice names
ChosenType == IF predIn.target_season = "next_PV" THEN "PV" ELSE "OI"

\* C4: predict_workflow lets no exception escape: every failure (loading, no valid
\* season, invalid target choice, no model found, no historical rows of the target
\* type, inference, metrics loading, plan construction) gives a result of status
\* 'error' carrying the message; otherwise the status is 'success' with the plan.
C4_NoExceptionEscapes ==
    predOut.done =>
        /\ ~predOut.ret.escaped
        /\ predOut.ret.result.status \in {"success", "error"}
        /\ (predOut.body.raised =>
                predOut.ret.result = [status |-> "error", error |-> predOut.body.exc.error])
        /\ (~predOut.body.raised =>
                /\ predOut.ret.result.status = "success"
                /\ predOut.ret.result.plan_compras # <<>>)
        /\ (predOut.body.forecast.called =>
              LET rows == predIn.df.rows
                  noSeason == \A i \in DOMAIN rows : rows[i].season_type = "None"
                  badChoice == predIn.target_season \notin {"next_PV", "next_OI"}
                  noModel == GlobModels(modelFiles, ChosenType) = {}
                  noRows == \A i \in DOMAIN rows : rows[i].season_type # ChosenType
                  failure == [status |-> "error",
                              error |-> CASE noSeason -> "No valid seasons found in data"
                                          [] ~noSeason /\ badChoice -> "Invalid target_season_choice"
                                          [] ~noSeason /\ ~badChoice /\ noModel ->
                                                "No model found for season"
                                          [] OTHER -> "No historical data found for season type"]
              IN (noSeason \/ badChoice \/ noModel \/ noRows) => predOut.ret.result = failure)

\* the model file of the chosen season type is missing and the call has returned
C4_Witness ==
    /\ predOut.done
    /\ predOut.body.raised
    /\ predOut.body.forecast.called
    /\ predOut.body.exc.type = "FileNotFoundError"
    /\ predIn.target_season = "next_OI"
    /\ modelFiles # <<>>
    /\ ~predOut.ret.escaped
    /\ predOut.ret.result.status = "error"

\* C6: every predicted quantity generate_forecast returns is >= 0: a negative model
\* output is replaced by 0, any other output is kept, and the total is >= 0.
C6_NonNegativePredictions ==
    (predOut.done /\ predOut.body.forecast.called) =>
        LET f == predOut.body.forecast.out
        IN ~f.raised =>
            /\ Len(f.predictions_df.rows) = Len(f.raw)
            /\ \A i \in DOMAIN f.raw :
                /\ f.predictions_df.rows[i].qty.v >= 0
                /\ f.predictions_df.rows[i].qty.v = (IF f.raw[i] < 0 THEN 0 ELSE f.raw[i])
            /\ f.total_predicted_units >= 0
            /\ f.total_predicted_units =
                    SeqSum([i \in DOMAIN f.raw |-> f.predictions_df.rows[i].qty.v])

\* a forecast whose model emitted a negative and a positive output
C6_Witness ==
    /\ predOut.done
    /\ predOut.body.forecast.called
    /\ ~predOut.body.forecast.out.raised
    /\ \E i, j \in DOMAIN predOut.body.forecast.out.raw :
        /\ predOut.body.forecast.out.raw[i] < 0
        /\ predOut.body.forecast.out.raw[j] > 0
        /\ predOut.body.forecast.out.predictions_df.rows[i].qty.v = 0

\* the rows of the table that generate_forecast predicts for
PredictedRows ==
    LET OfChosen(row) == row.season_type = ChosenType
    IN SelectSeq(predIn.df.rows, OfChosen)

\* the distinct non-missing values of a column among the predicted rows
DistinctValues(col) ==
    {ColumnValue(PredictedRows[i], col) : i \in DOMAIN PredictedRows} \ {"NaN"}

\* C21: the predictions are labelled with the first of family name, product line,
\* store name that is a column of the data and has more than one distinct
\* non-missing value among the predicted rows; if none qualifies every row gets the
\* label 'Producto' and no error is raised; either way the table has a SECCION column.
C21_SectionLabel ==
    (predOut.done /\ predOut.body.forecast.called /\ ~predOut.body.forecast.out.raised) =>
        LET out == predOut.body.forecast.out.predictions_df
            Qualifies(col) == col \in predIn.df.cols /\ Cardinality(DistinctValues(col)) > 1
            label == CASE Qualifies("Familia") -> "Familia"
                       [] ~Qualifies("Familia") /\ Qualifies("Línea Producto") -> "Línea Producto"
                       [] ~Qualifies("Familia") /\ ~Qualifies("Línea Producto")
                            /\ Qualifies("Nombre TPV") -> "Nombre TPV"
                       [] OTHER -> "none"
        IN /\ "SECCION" \in out.cols
           /\ Len(out.rows) = Len(PredictedRows)
           /\ \A i \in DOMAIN out.rows :
                out.rows[i].seccion = (IF label = "none" THEN "Producto"
                                       ELSE ColumnValue(PredictedRows[i], label))

\* a family column with one known and one missing value is passed over for the store name
C21_Witness ==
    /\ predOut.done /\ predOut.body.forecast.called /\ ~predOut.body.forecast.out.raised
    /\ "Familia" \in predIn.df.cols
    /\ Len(PredictedRows) = 2
    /\ PredictedRows[1].familia = "F1" /\ PredictedRows[2].familia = "NaN"
    /\ predOut.body.forecast.out.predictions_df.rows[1].seccion = "T1"
    /\ predOut.body.forecast.out.predictions_df.rows[2].seccion = "T2"

\* C22: the target season has the type the choice names and the year one plus the
\* maximum season_year over the rows with a season, whichever type holds it; the
\* model is loaded by the target type alone; the rows given to inference are the
\* historical rows of the target type with season_year set to the target year,
\* and there is one prediction for each of them.
C22_TargetSeason ==
    (predOut.done /\ predOut.body.forecast.called /\ ~predOut.body.forecast.out.raised) =>
        LET f == predOut.body.forecast.out
            rows == predIn.df.rows
            years == {rows[i].season_year : i \in {j \in DOMAIN rows : rows[j].season_type # "None"}}
            maxYear == CHOOSE y \in years : \A z \in years : z <= y
        IN /\ f.season_type = ChosenType
           /\ f.season_year = maxYear + 1
           /\ f.model = modelFiles[SortedLast(GlobModels(modelFiles, ChosenType))]
           /\ Len(f.X_pred) = Len(PredictedRows)
           /\ \A i \in DOMAIN f.X_pred :
                f.X_pred[i] = [PredictedRows[i] EXCEPT !.season_year = maxYear + 1]
           /\ Len(f.raw) = Len(f.X_pred)
           /\ Len(f.predictions_df.rows) = Len(f.X_pred)

\* a forecast for PV from a table whose latest season is an OI row listed after a PV row
C22_Witness ==
    /\ predOut.done /\ predOut.body.forecast.called /\ ~predOut.body.forecast.out.raised
    /\ predIn.target_season = "next_PV"
    /\ Len(predIn.df.rows) = 2
    /\ predIn.df.rows[1].season_type = "PV"
    /\ predIn.df.rows[2].season_type = "OI"
    /\ predIn.df.rows[2].season_year > predIn.df.rows[1].season_year
    /\ predOut.body.forecast.out.season_year = predIn.df.rows[2].season_year + 1
    /\ Len(predOut.body.forecast.out.X_pred) = 1

\* C27: after any sequence of successful training runs, the winning model name and
\* the metrics predict_workflow reports for a season type describe the family of
\* the model artifact that generate_forecast loaded and used for inference.
C27_ReportedFamilyIsLoaded ==
    (predOut.done /\ ~predOut.body.raised) =>
        /\ predOut.ret.result.status = "success"
        /\ predOut.ret.result.modelo_ganador = predOut.body.forecast.out.model.family

-----------------------------------------------------------------------------
(* Season extraction: preprocessing.py, extract_season.parse_season *)

(* A theme cell is [na, chars]: a missing value, or a string as the sequence of   *)
(* its characters. The result (None, None) is NoSeason, whose year 0 stands for   *)
(* the missing year.                                                              *)

Theme(chars) == [na |-> FALSE, chars |-> chars]
MissingTheme == [na |-> TRUE, chars |-> <<>>]

\* "SIN DEFINIR" (line 59)
SinDefinir == <<"S", "I", "N", " ", "D", "E", "F", "I", "N", "I", "R">>

NoSeason == [season_type |-> "None", season_year |-> 0]

\* str.strip()
RECURSIVE LStrip(_)
LStrip(chars) ==
    IF chars # <<>> /\ Head(chars) = " " THEN LStrip(Tail(chars)) ELSE chars

RECURSIVE RStrip(_)
RStrip(chars) ==
    IF chars # <<>> /\ chars[Len(chars)] = " "
    THEN RStrip(SubSeq(chars, 1, Len(chars) - 1)) ELSE chars

Strip(chars) == RStrip(LStrip(chars))

\* \d, and int() of one digit
DecimalDigits == <<"0", "1", "2", "3", "4", "5", "6", "7", "8", "9">>
IsDigit(c) == \E d \in DOMAIN DecimalDigits : DecimalDigits[d] = c
DigitValue(c) == (CHOOSE d \in DOMAIN DecimalDigits : DecimalDigits[d] = c) - 1

\* the pattern (PV|OI)(\d{2}) tried at the first character of chars
MatchHere(chars) ==
    IF /\ Len(chars) >= 4
       /\ \/ chars[1] = "P" /\ chars[2] = "V"
          \/ chars[1] = "O" /\ chars[2] = "I"
       /\ IsDigit(chars[3]) /\ IsDigit(chars[4])
    THEN [matched |-> TRUE,
          group1 |-> IF chars[1] = "P" THEN "PV" ELSE "OI",
          group2 |-> 10 * DigitValue(chars[3]) + DigitValue(chars[4])]
    ELSE [matched |-> FALSE]

\* re.match in place of re.search: the pattern is tried at the start only
MatchAtStart(chars) == MatchHere(chars)

\* re.search(r'(PV|OI)(\d{2})', tema): the first position where the pattern matches
RECURSIVE Search(_)
Search(chars) ==
    IF chars = <<>> THEN [matched |-> FALSE]
    ELSE IF MatchHere(chars).matched THEN MatchHere(chars)
    ELSE Search(Tail(chars))

\* parse_season(tema) (lines 58-73)
parse_season(tema) ==
    IF tema.na \/ tema.chars = SinDefinir
    THEN NoSeason
    ELSE LET match == Search(Strip(tema.chars))
         IN IF match.matched
            THEN [season_type |-> match.group1, season_year |-> YearBase + match.group2]
            ELSE NoSeason

\* the pieces the theme strings are put together from
ThemeTokens ==
    {<<"P", "V">>, <<"O", "I">>, <<"2", "5">>, <<"0", "7">>, <<"2">>, <<"P">>, <<"_">>, <<" ">>}

RECURSIVE Flatten(_)
Flatten(pieces) == IF pieces = <<>> THEN <<>> ELSE Head(pieces) \o Flatten(Tail(pieces))

\* theme cells: a missing value, the literal "SIN DEFINIR", the strings of up to
\* MaxThemeTokens pieces (the empty string among them)
ThemeInputs ==
    {MissingTheme, Theme(SinDefinir)} \cup
    {Theme(Flatten(ps)) : ps \in UNION {[1..n -> ThemeTokens] : n \in 0..MaxThemeTokens}}

SeasonInit ==
    /\ RegEmpty /\ SplitUnused /\ SelUnused /\ TrainUnused /\ PlanUnused /\ PredUnused /\ RaceUnused
    /\ callIn \in {[fn |-> "parse_season", tema |-> t] : t \in ThemeInputs}
    /\ callOut = [done |-> FALSE]

ParseSeason ==
    /\ callIn.fn = "parse_season"
    /\ ~callOut.done
    /\ callOut' = [done |-> TRUE, raised |-> FALSE, ret |-> parse_season(callIn.tema)]
    /\ UNCHANGED <<callIn, notCall>>

SeasonNext == ParseSeason

SpecSeason == SeasonInit /\ [][SeasonNext]_vars

\* the positions of chars where PV or OI is immediately followed by two digits
Occurrences(chars) ==
    {i \in 1..(Len(chars) - 3) :
        /\ <<chars[i], chars[i + 1]>> \in {<<"P", "V">>, <<"O", "I">>}
        /\ chars[i + 2] \in {"0", "1", "2", "3", "4", "5", "6", "7", "8", "9"}
        /\ chars[i + 3] \in {"0", "1", "2", "3", "4", "5", "6", "7", "8", "9"}}

\* the number two digit characters write
TwoDigits(a, b) ==
    LET n == [c \in {"0", "1", "2", "3", "4", "5", "6", "7", "8", "9"} |->
                CASE c = "0" -> 0 [] c = "1" -> 1 [] c = "2" -> 2 [] c = "3" -> 3 [] c = "4" -> 4
                  [] c = "5" -> 5 [] c = "6" -> 6 [] c = "7" -> 7 [] c = "8" -> 8 [] c = "9" -> 9]
    IN 10 * n[a] + n[b]

\* C15: season extraction depends on the theme string alone: with PV or OI
\* immediately followed by two digits somewhere in it, the result is that code and
\* 2000 + the number, for the leftmost such place; for 'SIN DEFINIR', a missing or
\* empty value or a string with no such place it is (null, null); nothing is raised.
C15_SeasonOfTheme ==
    (callIn.fn = "parse_season" /\ callOut.done) =>
        LET chars == callIn.tema.chars
            occ == Occurrences(chars)
        IN /\ ~callOut.raised
           /\ IF ~callIn.tema.na /\ chars # SinDefinir /\ occ # {}
              THEN LET i == CHOOSE k \in occ : \A j \in occ : k <= j
                   IN /\ callOut.ret.season_type =
                            (IF chars[i] = "P" THEN "PV" ELSE "OI")
                      /\ callOut.ret.season_year = 2000 + TwoDigits(chars[i + 2], chars[i + 3])
              ELSE callOut.ret = [season_type |-> "None", season_year |-> 0]

\* a theme holding OI07 and then PV25: the result is OI, 2007
C15_Witness ==
    /\ callIn.fn = "parse_season" /\ callOut.done
    /\ Cardinality(Occurrences(callIn.tema.chars)) = 2
    /\ callOut.ret = [season_type |-> "OI", season_year |-> 2007]

-----------------------------------------------------------------------------
(* MAPE: training.py, mean_absolute_percentage_error *)

(* y_true holds ordered quantities (0 and up), y_pred what a model emits. The     *)
(* result is the fraction num / den (den > 0), not reduced.                       *)

Frac(n, d) == [num |-> n, den |-> d]
FracEq(a, b) == a.num * b.den = b.num * a.den
FracAdd(a, b) == Frac(a.num * b.den + b.num * a.den, a.den * b.den)

Abs(x) == IF x < 0 THEN -x ELSE x

\* every position from k on, whatever the mask holds
AllIndices(mask, k) == [i \in 1..(Len(mask) - k + 1) |-> i + k - 1]

\* the positions from k on that a boolean mask selects, in order
RECURSIVE MaskIndices(_, _)
MaskIndices(mask, k) ==
    IF k > Len(mask) THEN <<>>
    ELSE IF mask[k] THEN <<k>> \o MaskIndices(mask, k + 1)
    ELSE MaskIndices(mask, k + 1)

\* the error taken as a sum instead of a difference
AbsRatioOfSum(t, p) == Frac(Abs(t + p), Abs(t))

\* np.abs((y_true[mask] - y_pred[mask]) / y_true[mask]), one element
AbsRatio(t, p) == Frac(Abs(t - p), Abs(t))

RECURSIVE FracSum(_)
FracSum(fs) == IF fs = <<>> THEN Frac(0, 1) ELSE FracAdd(Head(fs), FracSum(Tail(fs)))

\* np.mean
Mean(fs) == Frac(FracSum(fs).num, FracSum(fs).den * Len(fs))

\* mask.sum() == 0
MaskSumIsZero(mask) == \A i \in DOMAIN mask : ~mask[i]

\* mean_absolute_percentage_error(y_true, y_pred) (lines 31-41)
mean_absolute_percentage_error(y_true, y_pred) ==
    LET mask == [i \in DOMAIN y_true |-> y_true[i] # 0]
        kept == MaskIndices(mask, 1)
    IN IF MaskSumIsZero(mask)
       THEN Frac(100, 1)
       ELSE LET m == Mean([k \in DOMAIN kept |-> AbsRatio(y_true[kept[k]], y_pred[kept[k]])])
            IN Frac(m.num * 100, m.den)

\* the pairs of vectors of length n
MapeInputs(n) ==
    {[fn |-> "mape", y_true |-> t, y_pred |-> p] :
        t \in [1..n -> 0..MaxQty], p \in [1..n -> (-1)..MaxQty]}

MapeInit ==
    /\ RegEmpty /\ SplitUnused /\ SelUnused /\ TrainUnused /\ PlanUnused /\ PredUnused /\ RaceUnused
    /\ \E n \in 1..MaxVec : callIn \in MapeInputs(n)
    /\ callOut = [done |-> FALSE]

Mape ==
    /\ callIn.fn = "mape"
    /\ ~callOut.done
    /\ callOut' = [done |-> TRUE, raised |-> FALSE,
                   ret |-> mean_absolute_percentage_error(callIn.y_true, callIn.y_pred)]
    /\ UNCHANGED <<callIn, notCall>>

MapeNext == Mape

SpecMape == MapeInit /\ [][MapeNext]_vars

\* C16: mean_absolute_percentage_error returns exactly 0 for every pair of vectors
\* in which y_pred equals y_true elementwise.
C16_PerfectIsZero ==
    (callIn.fn = "mape" /\ callOut.done /\ callIn.y_pred = callIn.y_true) =>
        callOut.ret.num = 0

\* C16 (amended): mean_absolute_percentage_error returns exactly 0 for every pair of
\* vectors in which y_pred equals y_true elementwise and some y_true value is not 0.
C16_PerfectIsZeroUnlessAllZero ==
    (/\ callIn.fn = "mape" /\ callOut.done
     /\ callIn.y_pred = callIn.y_true
     /\ \E i \in DOMAIN callIn.y_true : callIn.y_true[i] # 0) =>
        callOut.ret.num = 0

\* a perfect prediction of a vector holding a 0 and two different quantities
C16_Witness ==
    /\ callIn.fn = "mape" /\ callOut.done
    /\ callIn.y_pred = callIn.y_true
    /\ \E i, j, k \in DOMAIN callIn.y_true :
            /\ callIn.y_true[i] = 0
            /\ callIn.y_true[j] > 0
            /\ callIn.y_true[k] > callIn.y_true[j]
    /\ callOut.ret.num = 0

\* the sum over the positions in I of |y_true - y_pred| / y_true, as a multiple
\* of 1 / (the product of y_true over I)
RECURSIVE ProductOver(_, _)
ProductOver(y, I) ==
    IF I = {} THEN 1
    ELSE LET i == CHOOSE x \in I : TRUE IN y[i] * ProductOver(y, I \ {i})

RECURSIVE ScaledErrorSum(_, _, _, _)
ScaledErrorSum(t, p, I, J) ==
    IF J = {} THEN 0
    ELSE LET i == CHOOSE x \in J : TRUE
         IN (IF t[i] >= p[i] THEN t[i] - p[i] ELSE p[i] - t[i]) * ProductOver(t, I \ {i})
                + ScaledErrorSum(t, p, I, J \ {i})

\* C17: the result is exactly 100 when every y_true is 0, whatever y_pred is;
\* otherwise it is 100 times the mean of |y_true - y_pred| / y_true over the rows
\* with y_true # 0 alone: rows with y_true = 0 do not count and the result is defined.
C17_MapeDefinition ==
    (callIn.fn = "mape" /\ callOut.done) =>
        LET t == callIn.y_true
            p == callIn.y_pred
            I == {i \in DOMAIN t : t[i] # 0}
        IN /\ ~callOut.raised
           /\ callOut.ret.den > 0
           /\ IF I = {}
              THEN callOut.ret.num = 100 * callOut.ret.den
              ELSE callOut.ret.num * Cardinality(I) * ProductOver(t, I)
                        = 100 * ScaledErrorSum(t, p, I, I) * callOut.ret.den

\* a vector with a 0 row that is predicted wrongly and two rows of different errors
C17_Witness ==
    /\ callIn.fn = "mape" /\ callOut.done
    /\ Len(callIn.y_true) = MaxVec
    /\ callIn.y_true[1] = 0 /\ callIn.y_pred[1] # 0
    /\ callIn.y_true[2] = 1 /\ callIn.y_pred[2] = -1
    /\ callIn.y_true[3] = 2 /\ callIn.y_pred[3] = 1
    /\ FracEq(callOut.ret, Frac(125, 1))

-----------------------------------------------------------------------------
(* Cleaning and feature building: preprocessing.py, clean_data, build_features *)

(* A raw table is [cols, rows] as extract_season leaves it. A row has its index  *)
(* label, the cells qty ('Cantidad Pedida'), cost ('Precio Coste') and pvp        *)
(* ('P.V.P.'), a missing one being NotNumeric, the values cat[c] of its           *)
(* descriptive columns ("NaN" when missing), season_type and season_year.         *)

\* critical_fields (line 128)
CriticalFields == {"Cantidad Pedida", "Precio Coste", "P.V.P."}

\* categorical_cols (lines 139-140)
CategoricalCols == {"Marca", "Artículo", "Modelo Artículo", "Color", "Talla",
                    "Línea Producto", "Nombre TPV", "Tema"}

\* the descriptive columns the rows of the model carry
RowCatCols == {"Marca", "Familia"}

\* rows that hold the sentinel are taken for incomplete as well
PresentAndKnown(row) ==
    /\ row.qty.num /\ row.cost.num /\ row.pvp.num
    /\ \A c \in DOMAIN row.cat : row.cat[c] # "UNKNOWN"

\* df.dropna(subset=critical_fields) keeps the row
Present(row) == row.qty.num /\ row.cost.num /\ row.pvp.num

\* a comparison that lets 0 through
NotBelowZero(v) == v >= 0

\* `> 0` (lines 134-136)
Positive(v) == v > 0

\* df[col].fillna('UNKNOWN') for the listed columns the table has
FillCategorical(cols, row) ==
    [row EXCEPT !.cat = [c \in DOMAIN row.cat |->
        IF c \in CategoricalCols /\ c \in cols /\ row.cat[c] = "NaN"
        THEN "UNKNOWN" ELSE row.cat[c]]]

\* clean_data(df) (lines 113-148)
clean_data(table) ==
    IF ~(CriticalFields \subseteq table.cols)
    THEN [raised |-> TRUE, error |-> "KeyError"]
    ELSE LET QtyPositive(row) == Positive(row.qty.v)
             CostPositive(row) == Positive(row.cost.v)
             PvpPositive(row) == Positive(row.pvp.v)
             kept == SelectSeq(SelectSeq(SelectSeq(SelectSeq(table.rows, Present),
                                                   QtyPositive), CostPositive), PvpPositive)
         IN [raised |-> FALSE,
             ret |-> [cols |-> table.cols,
                      rows |-> [i \in DOMAIN kept |-> FillCategorical(table.cols, kept[i])]]]

\* a filter that excludes only the rows without a season
AnySeason(row, season_type) == row.season_type # "None"

\* df['season_type'] == season_type (line 165)
OfSeason(row, season_type) == row.season_type = season_type

\* categorical_features and numerical_features (lines 173-184)
FeatureCols == {"Marca", "Artículo", "Modelo Artículo", "Color", "Talla", "Línea Producto",
                "Nombre TPV", "season_year", "Precio Coste", "P.V.P.", "Importe de Coste", "Month"}

\* build_features(df, season_type) (lines 151-197): X keeps the index labels
build_features(df, season_type) ==
    LET Matches(row) == OfSeason(row, season_type)
        df_filtered == SelectSeq(df.rows, Matches)
    IN IF Len(df_filtered) = 0
       THEN [X |-> [cols |-> {}, rows |-> <<>>], y |-> <<>>]
       ELSE [X |-> [cols |-> FeatureCols \cap df.cols,
                    rows |-> [i \in DOMAIN df_filtered |->
                               [index |-> df_filtered[i].index,
                                cat |-> [c \in DOMAIN df_filtered[i].cat \cap (FeatureCols \cap df.cols) |->
                                            df_filtered[i].cat[c]],
                                season_year |-> df_filtered[i].season_year,
                                cost |-> df_filtered[i].cost,
                                pvp |-> df_filtered[i].pvp]]],
             y |-> [i \in DOMAIN df_filtered |->
                        [index |-> df_filtered[i].index, value |-> df_filtered[i].qty]]]

\* the numeric cells of a row: all valid, or one of them missing, 0 or negative
NumericKinds ==
    << <<Cell(1), Cell(1), Cell(2)>>, <<Cell(2), Cell(1), Cell(2)>>,
       <<NotNumeric, Cell(1), Cell(2)>>, <<Cell(0), Cell(1), Cell(2)>>,
       <<Cell(0 - 1), Cell(1), Cell(2)>>,
       <<Cell(1), NotNumeric, Cell(2)>>, <<Cell(1), Cell(0), Cell(2)>>,
       <<Cell(1), Cell(1), NotNumeric>>, <<Cell(1), Cell(1), Cell(0)>> >>

\* the descriptive values of a row: all present, or all missing
CatKinds == << [c \in RowCatCols |-> "x"], [c \in RowCatCols |-> "NaN"] >>

\* the seasons extract_season gave a row
SeasonKinds == << [season_type |-> "PV", season_year |-> YearBase + 25],
                  [season_type |-> "OI", season_year |-> YearBase + 25],
                  NoSeason >>

NRawKinds == Len(NumericKinds) * Len(CatKinds) * Len(SeasonKinds)

\* the k-th kind of row, with index label i
RawRow(k, i) ==
    LET nk == NumericKinds[((k - 1) % Len(NumericKinds)) + 1]
        ck == CatKinds[(((k - 1) \div Len(NumericKinds)) % Len(CatKinds)) + 1]
        sk == SeasonKinds[((k - 1) \div (Len(NumericKinds) * Len(CatKinds))) + 1]
    IN [index |-> i, qty |-> nk[1], cost |-> nk[2], pvp |-> nk[3], cat |-> ck,
        season_type |-> sk.season_type, season_year |-> sk.season_year]

RawCols == CriticalFields \cup RowCatCols \cup {"season_type", "season_year"}

\* raw tables of n rows: all columns, or without 'Marca', or
\* without a critical field. Cleaning treats each row by itself, so one order of
\* each collection of row kinds is enumerated.
RawTables(n) ==
    LET ordered == {f \in [1..n -> 1..NRawKinds] : \A i \in 1..(n - 1) : f[i] <= f[i + 1]}
    IN {[cols |-> RawCols \ d, rows |-> [i \in DOMAIN f |-> RawRow(f[i], i)]] :
            d \in {{}, {"Marca"}, {"Precio Coste"}}, f \in ordered}

CleanInit ==
    /\ RegEmpty /\ SplitUnused /\ SelUnused /\ TrainUnused /\ PlanUnused /\ PredUnused /\ RaceUnused
    /\ \E n \in 0..MaxCleanRows :
            callIn \in {[fn |-> "clean_data", table |-> t] : t \in RawTables(n)}
    /\ callOut = [done |-> FALSE]

\* clean_data(df) on the raw table
CleanData ==
    /\ callIn.fn = "clean_data"
    /\ ~callOut.done
    /\ LET out == clean_data(callIn.table)
       IN callOut' = IF out.raised
                     THEN [done |-> TRUE, raised |-> TRUE, error |-> out.error]
                     ELSE [done |-> TRUE, raised |-> FALSE, ret |-> out.ret,
                           again |-> [done |-> FALSE], features |-> [done |-> FALSE]]
    /\ UNCHANGED <<callIn, notCall>>

\* clean_data on the table clean_data returned
CleanDataAgain ==
    /\ callIn.fn = "clean_data"
    /\ callOut.done /\ ~callOut.raised /\ ~callOut.again.done
    /\ LET out == clean_data(callOut.ret)
       IN callOut' = [callOut EXCEPT !.again =
                        IF out.raised THEN [done |-> TRUE, raised |-> TRUE, error |-> out.error]
                        ELSE [done |-> TRUE, raised |-> FALSE, ret |-> out.ret]]
    /\ UNCHANGED <<callIn, notCall>>

\* build_features(df, season_type) on the cleaned table (lines 283-286)
BuildFeatures ==
    /\ callIn.fn = "clean_data"
    /\ callOut.done /\ ~callOut.raised /\ ~callOut.features.done
    /\ \E season_type \in Seasons :
        callOut' = [callOut EXCEPT !.features =
                        [done |-> TRUE, raised |-> FALSE, season_type |-> season_type,
                         ret |-> build_features(callOut.ret, season_type)]]
    /\ UNCHANGED <<callIn, notCall>>

CleanNext == CleanData \/ CleanDataAgain \/ BuildFeatures

SpecClean == CleanInit /\ [][CleanNext]_vars

\* the numeric conditions of cleaning on a raw row
NumericOk(row) ==
    /\ row.qty.num /\ row.cost.num /\ row.pvp.num
    /\ row.qty.v > 0 /\ row.cost.v > 0 /\ row.pvp.v > 0

\* C18: every row clean_data returns has quantity, cost and list price present
\* and > 0 and no missing value in a listed categorical column of the table
\* (a missing one is 'UNKNOWN'); no row that meets the numeric conditions is
\* dropped; an empty result is returned without raising.
C18_CleanRows ==
    (callIn.fn = "clean_data" /\ callOut.done /\ CriticalFields \subseteq callIn.table.cols) =>
        /\ ~callOut.raised
        /\ \A j \in DOMAIN callOut.ret.rows :
            LET r == callOut.ret.rows[j]
            IN /\ NumericOk(r)
               /\ \A c \in (CategoricalCols \cap callOut.ret.cols) \cap DOMAIN r.cat :
                    /\ r.cat[c] # "NaN"
                    /\ callIn.table.rows[r.index].cat[c] = "NaN" => r.cat[c] = "UNKNOWN"
                    /\ callIn.table.rows[r.index].cat[c] # "NaN" =>
                            r.cat[c] = callIn.table.rows[r.index].cat[c]
        /\ \A i \in DOMAIN callIn.table.rows :
            NumericOk(callIn.table.rows[i]) =>
                \E j \in DOMAIN callOut.ret.rows :
                    /\ callOut.ret.rows[j].index = i
                    /\ callOut.ret.rows[j].qty = callIn.table.rows[i].qty
                    /\ callOut.ret.rows[j].cost = callIn.table.rows[i].cost
                    /\ callOut.ret.rows[j].pvp = callIn.table.rows[i].pvp
        /\ (\A i \in DOMAIN callIn.table.rows : ~NumericOk(callIn.table.rows[i])) =>
                callOut.ret.rows = <<>>

\* a row of quantity 0 was dropped and a valid row without brand was kept and filled
C18_Witness ==
    /\ callIn.fn = "clean_data" /\ callOut.done /\ ~callOut.raised
    /\ Len(callIn.table.rows) = MaxCleanRows
    /\ \E i \in DOMAIN callIn.table.rows :
            callIn.table.rows[i].qty.num /\ callIn.table.rows[i].qty.v = 0
    /\ Len(callOut.ret.rows) = 1
    /\ "Marca" \in callOut.ret.cols
    /\ callIn.table.rows[callOut.ret.rows[1].index].cat["Marca"] = "NaN"
    /\ callOut.ret.rows[1].cat["Marca"] = "UNKNOWN"

\* C19: clean_data is idempotent: clean_data(clean_data(t)) has the same rows with
\* the same content as clean_data(t).
C19_CleanIdempotent ==
    (callIn.fn = "clean_data" /\ callOut.done /\ ~callOut.raised) =>
        (callOut.again.done =>
            /\ ~callOut.again.raised
            /\ callOut.again.ret = callOut.ret)

\* the second cleaning of a table whose first cleaning dropped a row and filled a value
C19_Witness ==
    /\ callIn.fn = "clean_data" /\ callOut.done /\ ~callOut.raised
    /\ callOut.again.done
    /\ Len(callOut.ret.rows) = 1
    /\ Len(callIn.table.rows) > 1
    /\ "Marca" \in callOut.ret.cols
    /\ callOut.ret.rows[1].cat["Marca"] = "UNKNOWN"
    /\ Len(callOut.again.ret.rows) = 1

\* C20: for a cleaned table and a season type T, build_features returns in X exactly
\* the rows whose season_type is T, none dropped, rows without a season or of the
\* other type left out, and y aligned with X row for row: len(X) = len(y) and no
\* target is null; without a matching row it returns empty X and y, and never raises.
C20_FeaturesOfSeason ==
    (callIn.fn = "clean_data" /\ callOut.done /\ ~callOut.raised) =>
        (callOut.features.done =>
            LET T == callOut.features.season_type
                df == callOut.ret.rows
                X == callOut.features.ret.X.rows
                y == callOut.features.ret.y
                matching == {i \in DOMAIN df : df[i].season_type = T}
            IN /\ ~callOut.features.raised
               /\ Len(X) = Len(y)
               /\ Len(X) = Cardinality(matching)
               /\ \A i \in matching : \E k \in DOMAIN X : X[k].index = df[i].index
               /\ \A k \in DOMAIN X :
                    /\ \E i \in matching :
                            /\ X[k].index = df[i].index
                            /\ y[k].value = df[i].qty
                            /\ X[k].cost = df[i].cost /\ X[k].pvp = df[i].pvp
                    /\ y[k].index = X[k].index
                    /\ y[k].value.num
               /\ \A k \in 1..(Len(X) - 1) : X[k].index < X[k + 1].index
               /\ matching = {} => (X = <<>> /\ y = <<>>))

\* features for PV from a cleaned table holding a PV row and a row of another or no season
C20_Witness ==
    /\ callIn.fn = "clean_data" /\ callOut.done /\ ~callOut.raised
    /\ callOut.features.done
    /\ callOut.features.season_type = "PV"
    /\ \E i, j \in DOMAIN callOut.ret.rows :
            /\ callOut.ret.rows[i].season_type = "PV"
            /\ callOut.ret.rows[j].season_type = "None"
            /\ Len(callOut.features.ret.X.rows) = 1
            /\ callOut.features.ret.X.rows[1].index = callOut.ret.rows[i].index
            /\ callOut.features.ret.y[1].value = callOut.ret.rows[i].qty

====
